---- MODULE Spec2Model ----
(***************************************************************************)
(* Model of the YM2149 sound emulation of Hatari (src/src/sound.c, the     *)
(* table-driven variant compiled when OLD_SOUND is not defined): register  *)
(* writes, step computation, sample synthesis, the frame scheduler and the *)
(* ring buffer shared with the audio callback.                             *)
(*                                                                         *)
(* TLC integers are 32-bit signed, while the program computes with ymu32   *)
(* and yms64 values.  A 32-bit unsigned value is therefore kept as a pair  *)
(* <<hi, lo>> of two 16-bit halves, and a 64-bit intermediate value as the *)
(* sequence of its base-256 digits, most significant first.                *)
(***************************************************************************)
EXTENDS Integers, Sequences, FiniteSets, TLC

B16 == 65536
B15 == 32768
MaxInt32 == 2147483647

Pow2(n) == 2 ^ n

(***************************************************************************)
(* 64-bit non-negative values as base-256 digits, most significant first.  *)
(***************************************************************************)
\* the four digits of n, 0 <= n < 2^31
Bytes4(n) == <<n \div 16777216, (n \div B16) % 256, (n \div 256) % 256, n % 256>>

\* the digits of n << s, for n << (s % 8) below 2^31
ShlBytes(n, s) == Bytes4(n * Pow2(s % 8)) \o [i \in 1 .. (s \div 8) |-> 0]

\* the digits of (ds[1..i] * b) + carry, for 0 < b < 2^22
RECURSIVE MulDigits(_, _, _, _)
MulDigits(ds, b, i, carry) ==
    IF i = 0 THEN Bytes4(carry)
    ELSE MulDigits(ds, b, i - 1, ((ds[i] * b) + carry) \div 256)
            \o <<((ds[i] * b) + carry) % 256>>

\* the digits of the quotient of ds[i..] by d, r the remainder brought down,
\* for 0 < d < 2^23
RECURSIVE DivDigits(_, _, _, _)
DivDigits(ds, d, i, r) ==
    IF i > Len(ds) THEN <<>>
    ELSE <<((r * 256) + ds[i]) \div d>> \o DivDigits(ds, d, i + 1, ((r * 256) + ds[i]) % d)

\* ds / d
Div64(ds, d) == DivDigits(ds, d, 1, 0)

\* are all the digits before the last n zero ?
HighZero(ds, n) == \A i \in 1 .. (Len(ds) - n) : ds[i] = 0

\* conversion to ymu32: the low 32 bits are kept
ToU32(ds) ==
    LET n == Len(ds)
    IN <<(ds[n - 3] * 256) + ds[n - 2], (ds[n - 1] * 256) + ds[n]>>

(***************************************************************************)
(* Bit operations on 16-bit halves and on ymu32 pairs.                     *)
(***************************************************************************)
\* a & b on 4 bits
And4(a, b) ==
    (((a % 2) * (b % 2)) + (2 * (((a \div 2) % 2) * ((b \div 2) % 2))))
    + ((4 * (((a \div 4) % 2) * ((b \div 4) % 2))) + (8 * ((a \div 8) * (b \div 8))))

And8(a, b) == And4(a % 16, b % 16) + (16 * And4(a \div 16, b \div 16))

And16(a, b) ==
    IF a = 0 \/ b = 0 THEN 0
    ELSE IF a = B16 - 1 THEN b
    ELSE IF b = B16 - 1 THEN a
    ELSE And8(a % 256, b % 256) + (256 * And8(a \div 256, b \div 256))
Or16(a, b) == a + b - And16(a, b)
Xor16(a, b) == a + b - 2 * And16(a, b)
Not16(a) == B16 - 1 - a

And32(a, b) == <<And16(a[1], b[1]), And16(a[2], b[2])>>
Or32(a, b) == <<Or16(a[1], b[1]), Or16(a[2], b[2])>>
Xor32(a, b) == <<Xor16(a[1], b[1]), Xor16(a[2], b[2])>>
Add32(a, b) ==
    LET l == a[2] + b[2]
    IN <<(a[1] + b[1] + (l \div B16)) % B16, l % B16>>
\* a - b modulo 2^32
Sub32(a, b) ==
    LET l == a[2] - b[2]
    IN <<(a[1] - b[1] + (l \div B16)) % B16, l % B16>>
\* a >= b
GE32(a, b) == a[1] > b[1] \/ (a[1] = b[1] /\ a[2] >= b[2])
IsZero32(a) == a[1] = 0 /\ a[2] = 0
\* a logical shift in place of the arithmetic one
Sar31_Logical(a) == <<0, a[1] \div B15>>

\* (yms32)a >> 31 : arithmetic shift of the sign bit over the whole word
Sar31(a) == IF a[1] >= B15 THEN <<B16 - 1, B16 - 1>> ELSE <<0, 0>>


\* C integer division (truncation toward zero), b > 0
CDiv(a, b) == IF a >= 0 THEN a \div b ELSE -((-a) \div b)
\* conversion to a signed 16-bit ymsample
S16(x) == ((x + B15) % B16) - B15
\* x >> n on a signed value (arithmetic shift)
Sar(x, n) == x \div Pow2(n)

(***************************************************************************)
(* Configuration owned by other files of the program.                      *)
(***************************************************************************)
SoundPlayBackFrequencies == <<11025, 22050, 44100>>
FreqIndexes == 1..3
nScreenRefreshRate == 50
CYCLES_PER_FRAME == 160256
MIXBUFFER_SIZE == 8192
SoundBufferSize == 1024

YM_REPLAY_FREQ(fi) == SoundPlayBackFrequencies[fi]
SAMPLES_PER_FRAME(fi) == (SoundPlayBackFrequencies[fi] + 35) \div nScreenRefreshRate
YM_ATARI_CLOCK == 2000000
DC_ADJUST_BUFFERLEN == 512
YM_OUTPUT_LEVEL == 32767
YM_OUTPUT_CENTERED == FALSE

(***************************************************************************)
(* Tables.                                                                 *)
(***************************************************************************)
ENV_GODOWN == 0
ENV_GOUP == 1
ENV_DOWN == 2
ENV_UP == 3

\* YmEnvDef[env + 1][block + 1]
YmEnvDef == <<
    <<ENV_GODOWN, ENV_DOWN, ENV_DOWN>>, <<ENV_GODOWN, ENV_DOWN, ENV_DOWN>>,
    <<ENV_GODOWN, ENV_DOWN, ENV_DOWN>>, <<ENV_GODOWN, ENV_DOWN, ENV_DOWN>>,
    <<ENV_GOUP, ENV_DOWN, ENV_DOWN>>, <<ENV_GOUP, ENV_DOWN, ENV_DOWN>>,
    <<ENV_GOUP, ENV_DOWN, ENV_DOWN>>, <<ENV_GOUP, ENV_DOWN, ENV_DOWN>>,
    <<ENV_GODOWN, ENV_GODOWN, ENV_GODOWN>>, <<ENV_GODOWN, ENV_DOWN, ENV_DOWN>>,
    <<ENV_GODOWN, ENV_GOUP, ENV_GODOWN>>, <<ENV_GODOWN, ENV_UP, ENV_UP>>,
    <<ENV_GOUP, ENV_GOUP, ENV_GOUP>>, <<ENV_GOUP, ENV_UP, ENV_UP>>,
    <<ENV_GOUP, ENV_GODOWN, ENV_GOUP>>, <<ENV_GOUP, ENV_DOWN, ENV_DOWN>> >>

YM_MERGE_VOICE(C, B, A) == C * 1024 + B * 32 + A

\* a faulty table: every block repeats the descending ramp
YmEnvWaves_RampAgain(env, pos) ==
    YM_MERGE_VOICE(31 - (pos % 32), 31 - (pos % 32), 31 - (pos % 32))

\* the entry YM2149_EnvBuild stores in YmEnvWaves[env][pos], pos in 0..95
YmEnvWaves(env, pos) ==
    LET def == YmEnvDef[env + 1][(pos \div 32) + 1]
        vol0 == IF def = ENV_GODOWN \/ def = ENV_UP THEN 31 ELSE 0
        inc == IF def = ENV_GODOWN THEN -1 ELSE IF def = ENV_GOUP THEN 1 ELSE 0
        vol == vol0 + inc * (pos % 32)
    IN YM_MERGE_VOICE(vol, vol, vol)

ymout1c5bit == <<
      0,   369,   438,   521,   619,   735,   874,  1039,
   1234,  1467,  1744,  2072,  2463,  2927,  3479,  4135,
   4914,  5841,  6942,  8250,  9806, 11654, 13851, 16462,
  19565, 23253, 27636, 32845, 39037, 46395, 55141, 65535 >>

\* a faulty expansion: the volume doubled
YmVolume4to5_Doubled == <<0, 2, 4, 6, 8, 10, 12, 14, 16, 18, 20, 22, 24, 26, 28, 30>>

YmVolume4to5 == <<0, 2, 5, 7, 9, 11, 13, 15, 17, 19, 21, 23, 25, 27, 29, 31>>

\* entry h of ymout5_u16 after YM2149_BuildLinearVolumeTable
\* (volumetable_set stores (i, j, k) at i + 32 * j + 32 * 32 * k)
YM2149_BuildLinearVolumeTable(h) ==
    (ymout1c5bit[(h % 32) + 1] + ymout1c5bit[((h \div 32) % 32) + 1]
        + ymout1c5bit[(h \div 1024) + 1]) \div 3

\* a faulty normalisation: the table is centred although YM_OUTPUT_CENTERED
\* is FALSE
YM2149_Normalise_5bit_Table_Centered(h) ==
    LET Max == YM2149_BuildLinearVolumeTable(32767)
        Center == YM_OUTPUT_LEVEL \div 2
        res == (YM2149_BuildLinearVolumeTable(h) * YM_OUTPUT_LEVEL) \div Max
    IN S16(res - Center)

\* entry h of ymout5 after YM2149_Normalise_5bit_Table
YM2149_Normalise_5bit_Table(h) ==
    LET Max == YM2149_BuildLinearVolumeTable(32767)
        Center == YM_OUTPUT_LEVEL \div 2
        res == (YM2149_BuildLinearVolumeTable(h) * YM_OUTPUT_LEVEL) \div Max
    IN S16(IF YM_OUTPUT_CENTERED THEN res - Center ELSE res)

ymout5(h) == YM2149_Normalise_5bit_Table(h)

\* a faulty table construction: the volumes are added to what the storage holds
Ym2149_Init_Accumulate(t) ==
    LET built == [h \in DOMAIN t |->
                     (t[h] + YM2149_BuildLinearVolumeTable(h)) % B16]
        Max == built[32767]
    IN [h \in DOMAIN t |-> ((built[h] * YM_OUTPUT_LEVEL) \div Max) % B16]

\* Ym2149_Init on the storage t of ymout5_u16 (16-bit words, here the entries
\* of DOMAIN t): YM2149_BuildLinearVolumeTable stores every entry, then
\* YM2149_Normalise_5bit_Table reads Max = in_5bit[0x7fff] and replaces each
\* entry by its normalised value, stored as a yms16 in the same word
Ym2149_Init(t) ==
    LET built == [h \in DOMAIN t |-> YM2149_BuildLinearVolumeTable(h)]
        Max == built[32767]
        Center == YM_OUTPUT_LEVEL \div 2
    IN [h \in DOMAIN t |->
           ((IF YM_OUTPUT_CENTERED
             THEN ((built[h] * YM_OUTPUT_LEVEL) \div Max) - Center
             ELSE (built[h] * YM_OUTPUT_LEVEL) \div Max) + B16) % B16]

(***************************************************************************)
(* Step computation.                                                       *)
(***************************************************************************)
\* The divisors are products ( per * YM_REPLAY_FREQ ); the quotient by a
\* product is the quotient by one factor of the quotient by the other, and
\* that is how the 64-bit divisions are carried out here.
Ym2149_ToneStepCompute(rHigh, rLow, fi) ==
    LET per == ((rHigh % 16) * 256) + rLow
    IN IF per <= 5 THEN <<0, 0>>
       ELSE ToU32(Div64(Div64(ShlBytes(YM_ATARI_CLOCK, 15 + 16 - 3),
                              YM_REPLAY_FREQ(fi)), per))

Ym2149_NoiseStepCompute(rNoise, fi) ==
    LET per == rNoise % 32
    IN IF per < 3 THEN <<0, 0>>
       ELSE ToU32(Div64(Div64(ShlBytes(YM_ATARI_CLOCK, 16 - 1 - 3),
                              YM_REPLAY_FREQ(fi)), per))

\* a faulty envelope step: the division by 8 is left out
Ym2149_EnvStepCompute_NoEight(rHigh, rLow, fi) ==
    LET per == (rHigh * 256) + rLow
    IN IF per > 0
       THEN ToU32(Div64(Div64(ShlBytes(YM_ATARI_CLOCK, 24), per),
                        YM_REPLAY_FREQ(fi)))
       ELSE ToU32(Div64(ShlBytes(YM_ATARI_CLOCK, 24), YM_REPLAY_FREQ(fi)))

Ym2149_EnvStepCompute(rHigh, rLow, fi) ==
    LET per == (rHigh * 256) + rLow
    IN IF per > 0
       THEN ToU32(Div64(Div64(Div64(ShlBytes(YM_ATARI_CLOCK, 24), 8), per),
                        YM_REPLAY_FREQ(fi)))
       ELSE ToU32(Div64(Div64(ShlBytes(YM_ATARI_CLOCK, 24), (8 * 1) \div 2),
                        YM_REPLAY_FREQ(fi)))

(***************************************************************************)
(* Generator state: the file-scope variables of the YM2149 emulator,       *)
(* gathered in one record so that the routines compose as functions.       *)
(***************************************************************************)
U32Zero == <<0, 0>>
U32Ones16 == <<0, B16 - 1>>          \* 0xffff
U32Bit31 == <<B15, 0>>               \* 1u << 31

YM_MASK_1VOICE == 31
YM_MASK_A == 31
YM_MASK_B == 31 * 32
YM_MASK_C == 31 * 1024

\* the zero-initialised statics, before Sound_Init
YmStatics ==
    [ SoundRegs |-> [i \in 0..13 |-> 0],
      stepA |-> U32Zero, stepB |-> U32Zero, stepC |-> U32Zero,
      posA |-> U32Zero, posB |-> U32Zero, posC |-> U32Zero,
      mixerTA |-> U32Zero, mixerTB |-> U32Zero, mixerTC |-> U32Zero,
      mixerNA |-> U32Zero, mixerNB |-> U32Zero, mixerNC |-> U32Zero,
      noiseStep |-> U32Zero, noisePos |-> U32Zero,
      currentNoise |-> U32Zero, RndRack |-> U32Zero,
      envStep |-> U32Zero, envPos |-> U32Zero, envShape |-> 0,
      EnvMask3Voices |-> 0, Vol3Voices |-> 0,
      bEnvelopeFreqFlag |-> FALSE,
      dc_buffer |-> [i \in 0..(DC_ADJUST_BUFFERLEN - 1) |-> 0],
      dc_pos |-> 0, dc_sum |-> 0,
      m_lowPassFilter |-> <<0, 0>> ]

(***************************************************************************)
(* DC adjuster and low pass filter.                                        *)
(***************************************************************************)
\* a faulty reset of the DC adjuster: the buffer is cleared, the running sum
\* and the position are kept
DcAdjuster_Reset_KeepSum(y) ==
    [y EXCEPT !.dc_buffer = [i \in 0..(DC_ADJUST_BUFFERLEN - 1) |-> 0]]

DcAdjuster_Reset(y) ==
    [y EXCEPT !.dc_buffer = [i \in 0..(DC_ADJUST_BUFFERLEN - 1) |-> 0],
              !.dc_pos = 0, !.dc_sum = 0]

\* a faulty DC adjuster: the entry overwritten stays in the running sum
DcAdjuster_AddSample_NoEvict(y, sample) ==
    [y EXCEPT !.dc_sum = y.dc_sum + sample,
              !.dc_buffer = [y.dc_buffer EXCEPT ![y.dc_pos] = sample],
              !.dc_pos = (y.dc_pos + 1) % DC_ADJUST_BUFFERLEN]

DcAdjuster_AddSample(y, sample) ==
    [y EXCEPT !.dc_sum = (y.dc_sum - y.dc_buffer[y.dc_pos]) + sample,
              !.dc_buffer = [y.dc_buffer EXCEPT ![y.dc_pos] = sample],
              !.dc_pos = (y.dc_pos + 1) % DC_ADJUST_BUFFERLEN]

\* n calls of DcAdjuster_AddSample with the same sample
RECURSIVE DcAdjuster_AddSamples(_, _, _)
DcAdjuster_AddSamples(y, sample, n) ==
    IF n = 0 THEN y
    ELSE IF n = 1 THEN DcAdjuster_AddSample(y, sample)
    ELSE LET h == DcAdjuster_AddSamples(y, sample, n \div 2)
         IN IF h.dc_pos < 0 THEN h
            ELSE DcAdjuster_AddSamples(h, sample, n - (n \div 2))

DcAdjuster_GetDcLevel(y) == S16(CDiv(y.dc_sum, DC_ADJUST_BUFFERLEN))

LowPassFilter_Reset(y) == [y EXCEPT !.m_lowPassFilter = <<0, 0>>]

\* returns the new state and the filtered sample
LowPassFilter(y, in) ==
    [ ym |-> [y EXCEPT !.m_lowPassFilter = <<y.m_lowPassFilter[2], in>>],
      out |-> S16(Sar(y.m_lowPassFilter[1], 2) + Sar(y.m_lowPassFilter[2], 1)
                  + Sar(in, 2)) ]

(***************************************************************************)
(* Sound_WriteReg                                                          *)
(***************************************************************************)
\* bit n of a byte, as the mixer mask it selects
MixerMask(data, n) == IF (data \div Pow2(n)) % 2 = 1 THEN U32Ones16 ELSE U32Zero

\* a faulty tone write: a step of 0 leaves the phase accumulator where it is
WriteTone_KeepPos(y, reg, val, fi) ==
    LET regs == [y.SoundRegs EXCEPT ![reg] = val]
        v == reg \div 2
        step == Ym2149_ToneStepCompute(regs[2 * v + 1], regs[2 * v], fi)
        y1 == [y EXCEPT !.SoundRegs = regs]
    IN CASE v = 0 -> [y1 EXCEPT !.stepA = step]
         [] v = 1 -> [y1 EXCEPT !.stepB = step]
         [] v = 2 -> [y1 EXCEPT !.stepC = step]

\* registers 0..5: tone period of one voice
WriteTone(y, reg, val, fi) ==
    LET regs == [y.SoundRegs EXCEPT ![reg] = val]
        v == reg \div 2
        step == Ym2149_ToneStepCompute(regs[2 * v + 1], regs[2 * v], fi)
        y1 == [y EXCEPT !.SoundRegs = regs]
    IN CASE v = 0 -> [y1 EXCEPT !.stepA = step,
                                !.posA = IF IsZero32(step) THEN U32Bit31 ELSE y.posA]
         [] v = 1 -> [y1 EXCEPT !.stepB = step,
                                !.posB = IF IsZero32(step) THEN U32Bit31 ELSE y.posB]
         [] v = 2 -> [y1 EXCEPT !.stepC = step,
                                !.posC = IF IsZero32(step) THEN U32Bit31 ELSE y.posC]

\* a faulty amplitude write: switching a voice to the envelope leaves its fixed
\* volume in Vol3Voices
WriteAmplitude_KeepVolume(y, reg, data, mask, shift) ==
    LET regs == [y.SoundRegs EXCEPT ![reg] = data % 32]
    IN IF (data \div 16) % 2 = 1
       THEN [y EXCEPT !.SoundRegs = regs,
                      !.EnvMask3Voices = Or16(y.EnvMask3Voices, mask)]
       ELSE [y EXCEPT !.SoundRegs = regs,
                      !.EnvMask3Voices = And16(y.EnvMask3Voices, Not16(mask)),
                      !.Vol3Voices = Or16(And16(y.Vol3Voices, Not16(mask)),
                                          YmVolume4to5[regs[reg] + 1] * Pow2(shift))]

\* a faulty amplitude write: a voice switched to the envelope clears the fixed
\* volumes of the three voices
WriteAmplitude_AllVoices(y, reg, data, mask, shift) ==
    LET regs == [y.SoundRegs EXCEPT ![reg] = data % 32]
    IN IF (data \div 16) % 2 = 1
       THEN [y EXCEPT !.SoundRegs = regs,
                      !.EnvMask3Voices = Or16(y.EnvMask3Voices, mask),
                      !.Vol3Voices = 0]
       ELSE [y EXCEPT !.SoundRegs = regs,
                      !.EnvMask3Voices = And16(y.EnvMask3Voices, Not16(mask)),
                      !.Vol3Voices = Or16(And16(y.Vol3Voices, Not16(mask)),
                                          YmVolume4to5[regs[reg] + 1] * Pow2(shift))]

\* registers 8..10: amplitude of one voice, mask the voice's YM_MASK_x,
\* shift 0, 5 or 10
WriteAmplitude(y, reg, data, mask, shift) ==
    LET regs == [y.SoundRegs EXCEPT ![reg] = data % 32]
    IN IF (data \div 16) % 2 = 1
       THEN [y EXCEPT !.SoundRegs = regs,
                      !.EnvMask3Voices = Or16(y.EnvMask3Voices, mask),
                      !.Vol3Voices = And16(y.Vol3Voices, Not16(mask))]
       ELSE [y EXCEPT !.SoundRegs = regs,
                      !.EnvMask3Voices = And16(y.EnvMask3Voices, Not16(mask)),
                      !.Vol3Voices = Or16(And16(y.Vol3Voices, Not16(mask)),
                                          YmVolume4to5[regs[reg] + 1] * Pow2(shift))]

\* a faulty noise period write: the step is recomputed, the noise generator is
\* never reset
WriteNoise_NoReset(y, data, fi) ==
    [y EXCEPT !.SoundRegs[6] = data % 32,
              !.noiseStep = Ym2149_NoiseStepCompute(data % 32, fi)]

\* register 6: noise period
WriteNoise(y, data, fi) ==
    LET step == Ym2149_NoiseStepCompute(data % 32, fi)
        y1 == [y EXCEPT !.SoundRegs[6] = data % 32, !.noiseStep = step]
    IN IF IsZero32(step)
       THEN [y1 EXCEPT !.noisePos = U32Zero, !.currentNoise = U32Ones16]
       ELSE y1

\* a faulty shape write: the shape is taken, the envelope goes on from where
\* it was
WriteEnvShape_KeepPos(y, data) ==
    [y EXCEPT !.SoundRegs[13] = data % 16,
              !.envShape = data % 16,
              !.bEnvelopeFreqFlag = TRUE]

\* a faulty shape write: the byte is stored as it comes
WriteEnvShape_Unmasked(y, data) ==
    [y EXCEPT !.SoundRegs[13] = data,
              !.envPos = U32Zero,
              !.envShape = data % 16,
              !.bEnvelopeFreqFlag = TRUE]

\* a faulty shape write: the flag of register 13 is not raised
WriteEnvShape_NoFlag(y, data) ==
    [y EXCEPT !.SoundRegs[13] = data % 16,
              !.envPos = U32Zero,
              !.envShape = data % 16]

\* register 13: envelope shape
WriteEnvShape(y, data) ==
    [y EXCEPT !.SoundRegs[13] = data % 16,
              !.envPos = U32Zero,
              !.envShape = data % 16,
              !.bEnvelopeFreqFlag = TRUE]

\* a faulty register write: a write of the envelope period restarts the
\* envelope
Sound_WriteReg_PeriodRestarts(y, reg, data, fi) ==
    CASE reg \in {0, 2, 4} -> WriteTone(y, reg, data, fi)
      [] reg \in {1, 3, 5} -> WriteTone(y, reg, data % 16, fi)
      [] reg = 6 -> WriteNoise(y, data, fi)
      [] reg = 7 ->
            [y EXCEPT !.SoundRegs[7] = data % 64,
                      !.mixerTA = MixerMask(data, 0),
                      !.mixerTB = MixerMask(data, 1),
                      !.mixerTC = MixerMask(data, 2),
                      !.mixerNA = MixerMask(data, 3),
                      !.mixerNB = MixerMask(data, 4),
                      !.mixerNC = MixerMask(data, 5)]
      [] reg = 8 -> WriteAmplitude(y, 8, data, YM_MASK_A, 0)
      [] reg = 9 -> WriteAmplitude(y, 9, data, YM_MASK_B, 5)
      [] reg = 10 -> WriteAmplitude(y, 10, data, YM_MASK_C, 10)
      [] reg = 11 ->
            [y EXCEPT !.SoundRegs[11] = data,
                      !.envPos = U32Zero,
                      !.envStep = Ym2149_EnvStepCompute(y.SoundRegs[12], data, fi)]
      [] reg = 12 ->
            [y EXCEPT !.SoundRegs[12] = data,
                      !.envPos = U32Zero,
                      !.envStep = Ym2149_EnvStepCompute(data, y.SoundRegs[11], fi)]
      [] reg = 13 -> WriteEnvShape(y, data)
      [] OTHER -> y

Sound_WriteReg(y, reg, data, fi) ==
    CASE reg \in {0, 2, 4} -> WriteTone(y, reg, data, fi)
      [] reg \in {1, 3, 5} -> WriteTone(y, reg, data % 16, fi)
      [] reg = 6 -> WriteNoise(y, data, fi)
      [] reg = 7 ->
            [y EXCEPT !.SoundRegs[7] = data % 64,
                      !.mixerTA = MixerMask(data, 0),
                      !.mixerTB = MixerMask(data, 1),
                      !.mixerTC = MixerMask(data, 2),
                      !.mixerNA = MixerMask(data, 3),
                      !.mixerNB = MixerMask(data, 4),
                      !.mixerNC = MixerMask(data, 5)]
      [] reg = 8 -> WriteAmplitude(y, 8, data, YM_MASK_A, 0)
      [] reg = 9 -> WriteAmplitude(y, 9, data, YM_MASK_B, 5)
      [] reg = 10 -> WriteAmplitude(y, 10, data, YM_MASK_C, 10)
      [] reg = 11 ->
            [y EXCEPT !.SoundRegs[11] = data,
                      !.envStep = Ym2149_EnvStepCompute(y.SoundRegs[12], data, fi)]
      [] reg = 12 ->
            [y EXCEPT !.SoundRegs[12] = data,
                      !.envStep = Ym2149_EnvStepCompute(data, y.SoundRegs[11], fi)]
      [] reg = 13 -> WriteEnvShape(y, data)
      [] OTHER -> y

(***************************************************************************)
(* Ym2149_Reset                                                            *)
(***************************************************************************)
\* for ( i=lo ; i<=hi ; i++ ) Sound_WriteReg ( i , 0 ), the range split in two
\* halves (the test on h has no role but to have h computed before the call)
RECURSIVE WriteRegsZero(_, _, _, _)
WriteRegsZero(y, lo, hi, fi) ==
    IF lo = hi THEN Sound_WriteReg(y, lo, 0, fi)
    ELSE LET h == WriteRegsZero(y, lo, (lo + hi) \div 2, fi)
         IN IF h.envShape < 0 THEN h
            ELSE WriteRegsZero(h, ((lo + hi) \div 2) + 1, hi, fi)

\* a faulty reset: the mixer register is left at the 0 the loop wrote
Ym2149_Reset_MixerZero(y, fi) ==
    LET y0 == WriteRegsZero(y, 0, 13, fi)
        y2 == [y0 EXCEPT !.currentNoise = U32Ones16,
                         !.RndRack = <<0, 1>>,
                         !.envShape = 0,
                         !.envPos = U32Zero]
    IN LowPassFilter_Reset(DcAdjuster_Reset(y2))

Ym2149_Reset(y, fi) ==
    LET y0 == WriteRegsZero(y, 0, 13, fi)
        y1 == IF y0.envShape < 0 THEN y0 ELSE Sound_WriteReg(y0, 7, 255, fi)
        y2 == [y1 EXCEPT !.currentNoise = U32Ones16,
                         !.RndRack = <<0, 1>>,
                         !.envShape = 0,
                         !.envPos = U32Zero]
    IN LowPassFilter_Reset(DcAdjuster_Reset(y2))

\* a faulty generator: the feedback is the tap at bit 2 alone
YM2149_RndCompute_OneTap(rack) ==
    LET bit == (rack[2] \div 4) % 2
        shifted == <<rack[1] \div 2, (rack[2] \div 2) + (rack[1] % 2) * B15>>
    IN [ RndRack |-> Or32(shifted, <<bit, 0>>),
         ret |-> IF bit = 1 THEN U32Zero ELSE U32Ones16 ]

(***************************************************************************)
(* YM2149_RndCompute and YM2149_NextSample                                 *)
(***************************************************************************)
\* returns the new seed and the value returned (0 or 0xffff)
YM2149_RndCompute(rack) ==
    LET bit == ((rack[2] % 2) + ((rack[2] \div 4) % 2)) % 2
        shifted == <<rack[1] \div 2, (rack[2] \div 2) + (rack[1] % 2) * B15>>
    IN [ RndRack |-> Or32(shifted, <<bit, 0>>),
         ret |-> IF bit = 1 THEN U32Zero ELSE U32Ones16 ]

\* the 5-bit field a voice contributes to Tone3Voices
VoiceGate_SilentWhenOff(pos, mixerT, mixerN, bn) ==
    And16(And32(And32(Sar31(pos), Xor32(mixerT, U32Ones16)), Or32(bn, mixerN))[2],
          YM_MASK_1VOICE)

VoiceGate(pos, mixerT, mixerN, bn) ==
    And16(And32(Or32(Sar31(pos), mixerT), Or32(bn, mixerN))[2], YM_MASK_1VOICE)

\* the noise output of this sample: a new random bit when the noise counter
\* has passed 2^16, the current one otherwise
NoiseOutput(y) ==
    IF y.noisePos[1] # 0
    THEN Xor32(y.currentNoise, YM2149_RndCompute(y.RndRack).ret)
    ELSE y.currentNoise

\* the index in ymout5 of this sample
Tone3Voices(y) ==
    LET bn == NoiseOutput(y)
        Env3Voices == And16(YmEnvWaves(y.envShape, y.envPos[1] \div 256),
                            y.EnvMask3Voices)
        bt == Or16(Or16(VoiceGate(y.posA, y.mixerTA, y.mixerNA, bn),
                        VoiceGate(y.posB, y.mixerTB, y.mixerNB, bn) * 32),
                   VoiceGate(y.posC, y.mixerTC, y.mixerNC, bn) * 1024)
    IN And16(bt, Or16(Env3Voices, y.Vol3Voices))

\* a faulty wrap: the three blocks are replayed from the first one
EnvWrap_ThreeBlocks(envPos1) ==
    IF GE32(envPos1, <<(3 * 32) * 256, 0>>)
    THEN Sub32(envPos1, <<(3 * 32) * 256, 0>>)
    ELSE envPos1

\* blocks 0, 1 and 2 were used: replay blocks 1 and 2
EnvWrap(envPos1) ==
    IF GE32(envPos1, <<(3 * 32) * 256, 0>>)
    THEN Sub32(envPos1, <<(2 * 32) * 256, 0>>)
    ELSE envPos1

\* the counters of the generator after a sample
NextSampleCounters(y) ==
    LET tick == y.noisePos[1] # 0
        noisePos1 == IF tick THEN <<0, y.noisePos[2]>> ELSE y.noisePos
        envPos1 == Add32(y.envPos, y.envStep)
    IN [y EXCEPT !.currentNoise = NoiseOutput(y),
                 !.RndRack = IF tick THEN YM2149_RndCompute(y.RndRack).RndRack
                             ELSE y.RndRack,
                 !.posA = Add32(y.posA, y.stepA),
                 !.posB = Add32(y.posB, y.stepB),
                 !.posC = Add32(y.posC, y.stepC),
                 !.noisePos = Add32(noisePos1, y.noiseStep),
                 !.envPos = EnvWrap(envPos1)]

\* the generator state after a sample
NextSampleState(y, lowPass) ==
    IF lowPass
    THEN LET y2 == DcAdjuster_AddSample(NextSampleCounters(y), ymout5(Tone3Voices(y)))
         IN LowPassFilter(y2, S16(ymout5(Tone3Voices(y)) - DcAdjuster_GetDcLevel(y2))).ym
    ELSE NextSampleCounters(y)

\* returns the new state, the sample and the index in ymout5
\* a faulty filter stage: the DC level is taken before the sample enters the
\* history of the DC adjuster
YM2149_NextSample_LevelFirst(y, lowPass) ==
    LET sample == ymout5(Tone3Voices(y))
        y1 == NextSampleCounters(y)
    IN IF lowPass
       THEN LET y2 == DcAdjuster_AddSample(y1, sample)
                f == LowPassFilter(y2, S16(sample - DcAdjuster_GetDcLevel(y1)))
            IN [ym |-> f.ym, sample |-> f.out, index |-> Tone3Voices(y)]
       ELSE [ym |-> y1, sample |-> sample, index |-> Tone3Voices(y)]

YM2149_NextSample(y, lowPass) ==
    LET sample == ymout5(Tone3Voices(y))
        y1 == NextSampleCounters(y)
    IN IF lowPass
       THEN LET y2 == DcAdjuster_AddSample(y1, sample)
                f == LowPassFilter(y2, S16(sample - DcAdjuster_GetDcLevel(y2)))
            IN [ym |-> f.ym, sample |-> f.out, index |-> Tone3Voices(y)]
       ELSE [ym |-> y1, sample |-> sample, index |-> Tone3Voices(y)]

(***************************************************************************)
(* Signed 32-bit (int) arithmetic of the frame scheduler.                  *)
(***************************************************************************)
\* two's complement representation of an int
I32Pair(a) == <<(a \div B16) % B16, a % B16>>
\* the int a 32-bit pattern stands for
I32OfPair(p) == IF p[1] >= B15 THEN ((p[1] - B16) * B16) + p[2] ELSE (p[1] * B16) + p[2]
I32Add(a, b) == I32OfPair(Add32(I32Pair(a), I32Pair(b)))
I32Sub(a, b) == I32OfPair(Sub32(I32Pair(a), I32Pair(b)))
\* a / b in C for an int a that may be -2^31, b > 0
I32Div(a, b) ==
    IF a >= 0 THEN a \div b
    ELSE LET m == -(a + 1)
         IN -((m \div b) + (IF m % b = b - 1 THEN 1 ELSE 0))

\* the digits of |a| for an int a
Mag(a) == IF a >= 0 THEN Bytes4(a)
          ELSE IF a = -MaxInt32 - 1 THEN <<128, 0, 0, 0>>
          ELSE Bytes4(-a)

\* the int that the low 32 bits of the signed value (neg, digits) stand for
I32Wrap(neg, ds) ==
    I32OfPair(IF neg THEN Sub32(<<0, 0>>, ToU32(ds)) ELSE ToU32(ds))

\* The value of the int expression  a * b / c  (b, c > 0).  When the product
\* does not fit in 32 bits the signed overflow is undefined, and what comes out
\* depends on the build: "wrap" keeps the low 32 bits of the product, "wide"
\* keeps the product exact in a wider register before the division.
IntOverflowModes == {"wrap", "wide"}

\* does a * b fit in an int ?
MulFits(a, b) ==
    LET ds == MulDigits(Mag(a), b, 4, 0)
        n == Len(ds)
    IN /\ HighZero(ds, 4)
       /\ \/ ds[n - 3] < 128
          \/ a < 0 /\ ds[n - 3] = 128 /\ ds[n - 2] = 0 /\ ds[n - 1] = 0 /\ ds[n] = 0

MulDiv(a, b, c, mode) ==
    IF mode = "wrap" \/ MulFits(a, b)
    THEN I32Div(I32Wrap(a < 0, MulDigits(Mag(a), b, 4, 0)), c)
    ELSE I32Wrap(a < 0, Div64(MulDigits(Mag(a), b, 4, 0), c))

(***************************************************************************)
(* Frame scheduler: Sound_SetSamplesPassed as a function of the cycle      *)
(* counter and of nGeneratedSamples; it yields the new counter and         *)
(* nSamplesToGenerate.                                                     *)
(***************************************************************************)
\* a faulty clamp: one sample short of a frame
OneFrameClamp_OffByOne(n, nSamplesPerFrame) ==
    IF n >= nSamplesPerFrame THEN nSamplesPerFrame - 1 ELSE n

\* if (nSamplesToGenerate > nSamplesPerFrame) nSamplesToGenerate = nSamplesPerFrame
OneFrameClamp(n, nSamplesPerFrame) ==
    IF n > nSamplesPerFrame THEN nSamplesPerFrame ELSE n

\* a scheduler without the clamp to the room left in the ring
RingClamp_Unclamped(n, nGen) == n

\* the clamp to MIXBUFFER_SIZE - nGeneratedSamples, and to 0 below it
RingClamp(n, nGen) ==
    IF n > MIXBUFFER_SIZE - nGen
    THEN (IF MIXBUFFER_SIZE - nGen < 0 THEN 0 ELSE MIXBUFFER_SIZE - nGen)
    ELSE n

\* a faulty scheduler: the cycles taken off the counter are those of the count
\* left by the ring clamp
Sound_SetSamplesPassed_ClampFirst(nSoundCycles, nGen, fi, mode) ==
    LET nSamplesPerFrame == SAMPLES_PER_FRAME(fi)
        q == MulDiv(nSoundCycles, nSamplesPerFrame, CYCLES_PER_FRAME, mode)
        n1 == OneFrameClamp(q, nSamplesPerFrame)
        n2 == RingClamp(n1, nGen)
        nSampleCycles == MulDiv(n2, CYCLES_PER_FRAME, nSamplesPerFrame, mode)
    IN [ nSamplesToGenerate |-> n2,
         beforeRingClamp |-> n1,
         beforeFrameClamp |-> q,
         overflow |-> ~MulFits(nSoundCycles, nSamplesPerFrame),
         nSampleCycles |-> nSampleCycles,
         cycles |-> I32Sub(nSoundCycles, nSampleCycles) ]

Sound_SetSamplesPassed(nSoundCycles, nGen, fi, mode) ==
    LET nSamplesPerFrame == SAMPLES_PER_FRAME(fi)
        q == MulDiv(nSoundCycles, nSamplesPerFrame, CYCLES_PER_FRAME, mode)
        n1 == OneFrameClamp(q, nSamplesPerFrame)
        nSampleCycles == MulDiv(n1, CYCLES_PER_FRAME, nSamplesPerFrame, mode)
    IN [ nSamplesToGenerate |-> RingClamp(n1, nGen),
         beforeRingClamp |-> n1,
         beforeFrameClamp |-> q,
         overflow |-> ~MulFits(nSoundCycles, nSamplesPerFrame),
         nSampleCycles |-> nSampleCycles,
         cycles |-> I32Sub(nSoundCycles, nSampleCycles) ]

\* the generator state after n calls of YM2149_NextSample
RECURSIVE GenerateLoop(_, _, _)
GenerateLoop(y, n, lowPass) ==
    IF n <= 0 THEN y
    ELSE IF n = 1 THEN NextSampleState(y, lowPass)
    ELSE LET h == GenerateLoop(y, n \div 2, lowPass)
         IN IF h.envShape < 0 THEN h ELSE GenerateLoop(h, n - (n \div 2), lowPass)

\* do the n entries from idx on (modulo the buffer size) meet the g entries
\* from c on ?
RangesMeet(idx, n, c, g) ==
    LET o == (idx - c) % MIXBUFFER_SIZE
    IN n > 0 /\ g > 0 /\ (o < g \/ o + n > MIXBUFFER_SIZE)

(***************************************************************************)
(* State.                                                                  *)
(***************************************************************************)
VARIABLES
    ym,                    \* generator state (record of the statics above)
    UseLowPassFilter,      \* configuration flag
    OutputAudioFreqIndex,  \* configuration: index in SoundPlayBackFrequencies
    bRecordingWav,         \* a WAV recording is open
    bRecordingYM,          \* a YM recording is open
    ymout5_u16,            \* the storage of the DAC table, at some entries
    IntOverflow,           \* what the build does on signed overflow
    CyclesCounterSound,    \* Cycles_GetCounter(CYCLES_COUNTER_SOUND)
    nGeneratedSamples,
    nSamplesToGenerate,
    ActiveSndBufIdx,
    CompleteSndBufIdx,
    OldSndBufIdx,          \* local of Sound_Update
    audioLock,             \* holder of the audio lock: "none", "emu", "cb"
    pc,                    \* position of the emulation thread in Sound_Update
    cbpc,                  \* position of the audio callback
    mixWritten,            \* <<index, count>>: entries of MixBuffer written by
                           \* the latest generation loop
    clobbered,             \* that loop wrote an entry not yet consumed
    dmaSndCall,            \* arguments of the latest DmaSnd_GenerateSamples
    wavCall,               \* arguments of the latest WAVFormat_Update
    lastNextSample,        \* result of the latest YM2149_NextSample
    call,                  \* the latest operation: <<name, argument, argument>>
    sched,                 \* what the latest Sound_SetSamplesPassed computed
    hist,                  \* history of the run: totals and counts (see Hist0)
    prev,                  \* fields of the generator state before the latest
                           \* register write, sample or reset
    arg,                   \* input of the latest step computation
    res,                   \* its result
    snapshot,              \* what MemorySnapShot_Store has written to the file
    saved                  \* the generator state when the snapshot was saved

configVars == <<UseLowPassFilter, OutputAudioFreqIndex, bRecordingWav, bRecordingYM,
                ymout5_u16, IntOverflow>>
bufVars == <<nGeneratedSamples, ActiveSndBufIdx, CompleteSndBufIdx>>
logVars == <<mixWritten, clobbered, dmaSndCall, wavCall>>
stepVars == <<prev, arg, res>>
snapVars == <<snapshot, saved>>
schedVars == <<CyclesCounterSound, nGeneratedSamples, nSamplesToGenerate,
               ActiveSndBufIdx, CompleteSndBufIdx, OldSndBufIdx, audioLock, pc,
               cbpc, mixWritten, clobbered, dmaSndCall, wavCall, sched>>

vars == <<ym, configVars, snapVars, schedVars, lastNextSample, call, hist,
          stepVars>>

NoCall == <<"none", 0, 0>>
NoSched == [nSamplesToGenerate |-> 0, beforeRingClamp |-> 0, beforeFrameClamp |-> 0,
            overflow |-> FALSE, nSampleCycles |-> 0, cycles |-> 0, cyclesBefore |-> 0,
            nGenBefore |-> 0]
NoSample == [sample |-> 0, index |-> 0]

\* what the properties need of the generator state before an operation
Before(y) == [envPos |-> y.envPos, envShape |-> y.envShape,
              noisePos |-> y.noisePos, currentNoise |-> y.currentNoise,
              EnvMask3Voices |-> y.EnvMask3Voices, Vol3Voices |-> y.Vol3Voices,
              SoundRegs |-> y.SoundRegs, mixerTA |-> y.mixerTA,
              mixerNA |-> y.mixerNA,
              RndRack |-> y.RndRack, posA |-> y.posA,
              dc_sum |-> y.dc_sum, dc_pos |-> y.dc_pos,
              m_lowPassFilter |-> y.m_lowPassFilter]

\* totals kept for the statement of the properties: cycles added and samples
\* generated since the reset, whether a clamp ever
\* applied, whether every update so far followed one advance of exactly one
\* frame, and the counts that bound the run
Hist0 == [cumCycles |-> 0, cumSamples |-> 0, clampSeen |-> FALSE,
          frameExact |-> TRUE, roomAlways |-> TRUE, nAdds |-> 0,
          nCallbacks |-> 0, nOps |-> 0, nSamples |-> 0, nResets |-> 0,
          nCaptures |-> 0, nWrites |-> 0]

\* the generator state a snapshot has to hold for the sound to resume as it
\* was: registers, steps, positions, noise seed, envelope and volume words
SnapshotState(y) ==
    [ SoundRegs |-> y.SoundRegs,
      stepA |-> y.stepA, stepB |-> y.stepB, stepC |-> y.stepC,
      posA |-> y.posA, posB |-> y.posB, posC |-> y.posC,
      noiseStep |-> y.noiseStep, noisePos |-> y.noisePos, RndRack |-> y.RndRack,
      envStep |-> y.envStep, envPos |-> y.envPos, envShape |-> y.envShape,
      EnvMask3Voices |-> y.EnvMask3Voices, Vol3Voices |-> y.Vol3Voices ]

(***************************************************************************)
(* Bounds of the model.                                                    *)
(***************************************************************************)
MaxBursts == 1          \* long runs of the CPU without Sound_Update (SpecSched)
MaxCallbacks == 1       \* audio callbacks (SpecSched)
MaxAdds == 3            \* advances of the cycle counter (SpecFrame)
MaxOps == 2             \* register writes and resets (generator specifications)
MaxSamples == 5         \* samples synthesized (generator specifications)
MaxResets == 1          \* resets after the writes and samples (SpecReset)
MaxCaptures == 2        \* snapshot saves and restores (SpecSnapshot)
MaxWrites == 3          \* register writes of a scenario (SpecScenario)


\* SpecSched: the CPU runs for 10 frames, or for so long that the product of
\* the cycles with the samples per frame passes 2^31
BurstSteps == {10 * CYCLES_PER_FRAME, 2434836}
\* SpecFrame: nothing, a little less and a little more than the cycles of a
\* sample, and one frame
FrameSteps == {0, 181, 182, CYCLES_PER_FRAME}

(***************************************************************************)
(* Sound_Init / Sound_Reset                                                *)
(***************************************************************************)
\* generator state when Sound_Reset returns: the flag of register 13 is
\* cleared first, Ym2149_Reset runs afterwards
YmAfterSoundReset(y, fi) ==
    IF y.envShape < 0 THEN y ELSE Ym2149_Reset([y EXCEPT !.bEnvelopeFreqFlag = FALSE], fi)

\* Sound_Init: Ym2149_Init (tables, Ym2149_Reset) followed by Sound_Reset
YmAfterSoundInit(fi) == YmAfterSoundReset(Ym2149_Reset(YmStatics, fi), fi)

ResetSamples(fi) == SoundBufferSize + SAMPLES_PER_FRAME(fi)

InitCommon ==
    /\ bRecordingYM = FALSE
    /\ ymout5_u16 = Ym2149_Init([h \in {0, 1, 31, 32, 33, 992, 1023, 1024, 1057,
                                        16384, 31744, 32766, 32767} |-> 0])
    /\ CyclesCounterSound = 0
    /\ nGeneratedSamples = ResetSamples(OutputAudioFreqIndex)
    /\ ActiveSndBufIdx = ResetSamples(OutputAudioFreqIndex) % MIXBUFFER_SIZE
    /\ CompleteSndBufIdx = 0
    /\ nSamplesToGenerate = 0
    /\ OldSndBufIdx = 0
    /\ audioLock = "none"
    /\ pc = "idle"
    /\ cbpc = "idle"
    /\ mixWritten = <<0, 0>>
    /\ clobbered = FALSE
    /\ dmaSndCall = <<0, 0>>
    /\ wavCall = <<0, 0>>
    /\ lastNextSample = NoSample
    /\ call = NoCall
    /\ sched = NoSched
    /\ hist = Hist0
    /\ arg = <<"none", 0, 0>>
    /\ res = U32Zero
    /\ snapshot = <<>>
    /\ saved = [valid |-> FALSE,
                state |-> SnapshotState(YmAfterSoundInit(OutputAudioFreqIndex))]
    /\ ym = YmAfterSoundInit(OutputAudioFreqIndex)
    /\ prev = Before(YmAfterSoundInit(OutputAudioFreqIndex))

(***************************************************************************)
(* The emulated CPU advances the sound cycle counter.                      *)
(***************************************************************************)
Cycles_Add(steps, max) ==
    /\ pc = "idle"
    /\ hist.nAdds < max
    /\ \E d \in steps :
          /\ CyclesCounterSound >= 0 => d <= MaxInt32 - CyclesCounterSound
          /\ CyclesCounterSound' = CyclesCounterSound + d
          /\ call' = <<"Cycles_Add", d, 0>>
          /\ hist' = [hist EXCEPT !.nAdds = @ + 1,
                                  !.cumCycles = @ + d,
                                  !.frameExact = @ /\ d = CYCLES_PER_FRAME
                                                   /\ call[1] # "Cycles_Add"]
    /\ UNCHANGED <<ym, configVars, snapVars, bufVars, nSamplesToGenerate, OldSndBufIdx,
                   audioLock, cbpc, pc, logVars, lastNextSample, sched, stepVars>>

\* a long run of the CPU, once the scheduler has caught up with the last one
Cycles_AddBurst ==
    /\ CyclesCounterSound = 0
    /\ Cycles_Add(BurstSteps, MaxBursts)

Cycles_AddFrame == Cycles_Add(FrameSteps, MaxAdds)

(***************************************************************************)
(* Sound_Update, one action per statement.                                 *)
(***************************************************************************)
\* int OldSndBufIdx = ActiveSndBufIdx;
Sound_Update_Enter ==
    /\ pc = "idle"
    /\ OldSndBufIdx' = ActiveSndBufIdx
    /\ pc' = "lock"
    /\ call' = <<"Sound_Update", 0, 0>>
    /\ hist' = [hist EXCEPT !.frameExact = @ /\ call[1] = "Cycles_Add"]
    /\ UNCHANGED <<ym, configVars, snapVars, CyclesCounterSound, bufVars, nSamplesToGenerate,
                   audioLock, cbpc, logVars, lastNextSample, sched, stepVars>>

\* a faulty lock: taken without waiting for its holder
Sound_Update_Lock_NoWait ==
    /\ pc = "lock"
    /\ audioLock' = "emu"
    /\ pc' = "setsamples"
    /\ UNCHANGED <<ym, configVars, snapVars, CyclesCounterSound, bufVars, nSamplesToGenerate,
                   OldSndBufIdx, cbpc, logVars, lastNextSample, call, sched, hist,
                   stepVars>>

\* Audio_Lock(): returns once the lock is free, holding it
Sound_Update_Lock ==
    /\ pc = "lock"
    /\ audioLock = "none"
    /\ audioLock' = "emu"
    /\ pc' = "setsamples"
    /\ UNCHANGED <<ym, configVars, snapVars, CyclesCounterSound, bufVars, nSamplesToGenerate,
                   OldSndBufIdx, cbpc, logVars, lastNextSample, call, sched, hist,
                   stepVars>>

Sound_Update_SetSamplesPassed ==
    /\ pc = "setsamples"
    /\ LET r == Sound_SetSamplesPassed(CyclesCounterSound, nGeneratedSamples,
                                       OutputAudioFreqIndex, IntOverflow)
       IN /\ nSamplesToGenerate' = r.nSamplesToGenerate
          /\ CyclesCounterSound' = r.cycles
          /\ sched' = [nSamplesToGenerate |-> r.nSamplesToGenerate,
                       beforeRingClamp |-> r.beforeRingClamp,
                       beforeFrameClamp |-> r.beforeFrameClamp,
                       overflow |-> r.overflow,
                       nSampleCycles |-> r.nSampleCycles,
                       cycles |-> r.cycles,
                       cyclesBefore |-> CyclesCounterSound,
                       nGenBefore |-> nGeneratedSamples]
          /\ hist' = [hist EXCEPT
                         !.clampSeen = @ \/ r.beforeFrameClamp # r.nSamplesToGenerate,
                         !.roomAlways = @ /\ MIXBUFFER_SIZE - nGeneratedSamples
                                                >= SAMPLES_PER_FRAME(OutputAudioFreqIndex)]
    /\ pc' = "generate"
    /\ UNCHANGED <<ym, configVars, snapVars, bufVars, OldSndBufIdx, audioLock, cbpc, logVars,
                   lastNextSample, call, stepVars>>

\* Sound_GenerateSamples: the loop that fills MixBuffer
Sound_Update_GenerateLoop ==
    /\ pc = "generate"
    /\ IF nSamplesToGenerate <= 0
       THEN /\ pc' = "unlock"
            /\ mixWritten' = <<ActiveSndBufIdx, 0>>
            /\ UNCHANGED <<ym, clobbered, prev>>
       ELSE /\ pc' = "advance"
            /\ ym' = GenerateLoop(ym, nSamplesToGenerate, UseLowPassFilter)
            /\ prev' = Before(ym)
            /\ mixWritten' = <<ActiveSndBufIdx, nSamplesToGenerate>>
            /\ clobbered' = RangesMeet(ActiveSndBufIdx, nSamplesToGenerate,
                                       CompleteSndBufIdx, nGeneratedSamples)
    /\ UNCHANGED <<configVars, snapVars, CyclesCounterSound, bufVars, nSamplesToGenerate,
                   OldSndBufIdx, audioLock, cbpc, dmaSndCall, wavCall, lastNextSample,
                   call, sched, hist, arg, res>>

\* Sound_GenerateSamples: DmaSnd_GenerateSamples, then the cursor and the count
Sound_Update_Advance ==
    /\ pc = "advance"
    /\ dmaSndCall' = <<ActiveSndBufIdx, nSamplesToGenerate>>
    /\ ActiveSndBufIdx' = (ActiveSndBufIdx + nSamplesToGenerate) % MIXBUFFER_SIZE
    /\ nGeneratedSamples' = nGeneratedSamples + nSamplesToGenerate
    /\ hist' = [hist EXCEPT !.cumSamples = @ + nSamplesToGenerate]
    /\ pc' = "unlock"
    /\ UNCHANGED <<ym, configVars, snapVars, CyclesCounterSound, nSamplesToGenerate,
                   CompleteSndBufIdx, OldSndBufIdx, audioLock, cbpc, mixWritten,
                   clobbered, wavCall, lastNextSample, call, sched, stepVars>>

\* a faulty return: the lock is kept
Sound_Update_Unlock_Keep ==
    /\ pc = "unlock"
    /\ pc' = "wav"
    /\ UNCHANGED <<ym, configVars, snapVars, CyclesCounterSound, bufVars, nSamplesToGenerate,
                   OldSndBufIdx, audioLock, cbpc, logVars, lastNextSample, call, sched,
                   hist, stepVars>>

\* Audio_Unlock()
Sound_Update_Unlock ==
    /\ pc = "unlock"
    /\ audioLock' = "none"
    /\ pc' = "wav"
    /\ UNCHANGED <<ym, configVars, snapVars, CyclesCounterSound, bufVars, nSamplesToGenerate,
                   OldSndBufIdx, cbpc, logVars, lastNextSample, call, sched, hist,
                   stepVars>>

\* if (bRecordingWav) WAVFormat_Update(...); return
Sound_Update_Wav ==
    /\ pc = "wav"
    /\ wavCall' = IF bRecordingWav THEN <<OldSndBufIdx, nSamplesToGenerate>>
                                   ELSE wavCall
    /\ pc' = "idle"
    /\ call' = <<"Sound_Update_return", 0, 0>>
    /\ UNCHANGED <<ym, configVars, snapVars, CyclesCounterSound, bufVars, nSamplesToGenerate,
                   OldSndBufIdx, audioLock, cbpc, mixWritten, clobbered, dmaSndCall,
                   lastNextSample, sched, hist, stepVars>>

(***************************************************************************)
(* The audio callback (audio.c): it runs on the audio thread with the      *)
(* audio lock held, passes up to SoundBufferSize completed samples to the  *)
(* device and advances the read cursor by what it took.                    *)
(***************************************************************************)
Audio_CallBack_Lock ==
    /\ cbpc = "idle"
    /\ audioLock = "none"
    /\ hist.nCallbacks < MaxCallbacks
    /\ audioLock' = "cb"
    /\ cbpc' = "run"
    /\ hist' = [hist EXCEPT !.nCallbacks = @ + 1]
    /\ UNCHANGED <<ym, configVars, snapVars, CyclesCounterSound, bufVars, nSamplesToGenerate,
                   OldSndBufIdx, pc, logVars, lastNextSample, call, sched, stepVars>>

Audio_CallBack ==
    /\ cbpc = "run"
    /\ LET len == IF nGeneratedSamples >= SoundBufferSize THEN SoundBufferSize
                  ELSE (IF nGeneratedSamples < 0 THEN 0 ELSE nGeneratedSamples)
       IN /\ CompleteSndBufIdx' = (CompleteSndBufIdx + len) % MIXBUFFER_SIZE
          /\ nGeneratedSamples' = nGeneratedSamples - len
    /\ audioLock' = "none"
    /\ cbpc' = "idle"
    /\ UNCHANGED <<ym, configVars, snapVars, CyclesCounterSound, nSamplesToGenerate,
                   ActiveSndBufIdx, OldSndBufIdx, pc, logVars, lastNextSample, call,
                   sched, hist, stepVars>>

(***************************************************************************)
(* SpecSched: the frame scheduler with its consumer.                       *)
(***************************************************************************)
InitSched ==
    /\ UseLowPassFilter = FALSE
    /\ OutputAudioFreqIndex = 3
    /\ bRecordingWav = FALSE
    /\ IntOverflow \in IntOverflowModes
    /\ InitCommon

NextSched ==
    \/ Cycles_AddBurst
    \/ Sound_Update_Enter
    \/ Sound_Update_Lock
    \/ Sound_Update_SetSamplesPassed
    \/ Sound_Update_GenerateLoop
    \/ Sound_Update_Advance
    \/ Sound_Update_Unlock
    \/ Sound_Update_Wav
    \/ Audio_CallBack_Lock
    \/ Audio_CallBack

SpecSched == InitSched /\ [][NextSched]_vars

(***************************************************************************)
(* SpecFrame: the frame scheduler alone, driven frame by frame.            *)
(***************************************************************************)
NextFrame ==
    \/ Cycles_AddFrame
    \/ Sound_Update_Enter
    \/ Sound_Update_Lock
    \/ Sound_Update_SetSamplesPassed
    \/ Sound_Update_GenerateLoop
    \/ Sound_Update_Advance
    \/ Sound_Update_Unlock
    \/ Sound_Update_Wav

SpecFrame == InitSched /\ [][NextFrame]_vars

\* SpecWav: the same schedule as SpecSched while a WAV file is recorded
InitWav ==
    /\ UseLowPassFilter = FALSE
    /\ OutputAudioFreqIndex = 3
    /\ bRecordingWav = TRUE
    /\ IntOverflow \in IntOverflowModes
    /\ InitCommon

SpecWav == InitWav /\ [][NextSched]_vars

(***************************************************************************)
(* The generator driven directly: register writes (from the PSG emulation),*)
(* single samples, and Sound_Reset.                                        *)
(***************************************************************************)
Sound_WriteReg_Call(writes) ==
    /\ pc = "idle"
    /\ hist.nOps < MaxOps
    /\ \E w \in writes :
          /\ ym' = Sound_WriteReg(ym, w[1], w[2], OutputAudioFreqIndex)
          /\ call' = <<"Sound_WriteReg", w[1], w[2]>>
    /\ prev' = Before(ym)
    /\ hist' = [hist EXCEPT !.nOps = @ + 1]
    /\ UNCHANGED <<configVars, snapVars, schedVars, lastNextSample, arg, res>>

YM2149_NextSample_Call ==
    /\ pc = "idle"
    /\ hist.nSamples < MaxSamples
    /\ LET r == YM2149_NextSample(ym, UseLowPassFilter)
       IN /\ ym' = r.ym
          /\ lastNextSample' = [sample |-> r.sample, index |-> r.index]
    /\ call' = <<"YM2149_NextSample", 0, 0>>
    /\ prev' = Before(ym)
    /\ hist' = [hist EXCEPT !.nSamples = @ + 1]
    /\ UNCHANGED <<configVars, snapVars, schedVars, arg, res>>

\* Sound_Reset runs with the audio lock held from its first to its last
\* statement
Sound_Reset_Effect ==
    /\ pc = "idle"
    /\ audioLock = "none"
    /\ CyclesCounterSound' = 0
    /\ CompleteSndBufIdx' = 0
    /\ nGeneratedSamples' = ResetSamples(OutputAudioFreqIndex)
    /\ ActiveSndBufIdx' = ResetSamples(OutputAudioFreqIndex) % MIXBUFFER_SIZE
    /\ ym' = YmAfterSoundReset(ym, OutputAudioFreqIndex)
    /\ call' = <<"Sound_Reset", 0, 0>>
    /\ prev' = Before(ym)
    /\ mixWritten' = <<0, 0>>
    /\ clobbered' = FALSE
    /\ UNCHANGED <<configVars, snapVars, nSamplesToGenerate, OldSndBufIdx, audioLock, pc, cbpc,
                   dmaSndCall, wavCall, lastNextSample, sched, arg, res>>

\* a reset counted with the register writes
Sound_Reset ==
    /\ hist.nOps < MaxOps
    /\ Sound_Reset_Effect
    /\ hist' = [hist EXCEPT !.nOps = @ + 1, !.cumCycles = 0, !.cumSamples = 0,
                            !.clampSeen = FALSE, !.frameExact = TRUE,
                            !.roomAlways = TRUE]

\* a reset counted on its own
Sound_Reset_Counted ==
    /\ hist.nResets < MaxResets
    /\ Sound_Reset_Effect
    /\ hist' = [hist EXCEPT !.nResets = @ + 1, !.cumCycles = 0, !.cumSamples = 0,
                            !.clampSeen = FALSE, !.frameExact = TRUE,
                            !.roomAlways = TRUE]

\* a faulty reset of the indexes: the write cursor is set as Sound_Reset sets
\* it, the read cursor taken for 0
Sound_ResetBufferIndex_FromZero ==
    /\ pc = "idle"
    /\ audioLock = "none"
    /\ hist.nResets < MaxResets
    /\ nGeneratedSamples' = ResetSamples(OutputAudioFreqIndex)
    /\ ActiveSndBufIdx' = ResetSamples(OutputAudioFreqIndex) % MIXBUFFER_SIZE
    /\ call' = <<"Sound_ResetBufferIndex", 0, 0>>
    /\ hist' = [hist EXCEPT !.nResets = @ + 1]
    /\ UNCHANGED <<ym, configVars, snapVars, CyclesCounterSound, CompleteSndBufIdx,
                   nSamplesToGenerate, OldSndBufIdx, audioLock, pc, cbpc, logVars,
                   lastNextSample, sched, stepVars>>

\* Sound_ResetBufferIndex runs with the audio lock held from its first to its
\* last statement
Sound_ResetBufferIndex ==
    /\ pc = "idle"
    /\ audioLock = "none"
    /\ hist.nResets < MaxResets
    /\ nGeneratedSamples' = ResetSamples(OutputAudioFreqIndex)
    /\ ActiveSndBufIdx' =
          (CompleteSndBufIdx + ResetSamples(OutputAudioFreqIndex)) % MIXBUFFER_SIZE
    /\ call' = <<"Sound_ResetBufferIndex", 0, 0>>
    /\ hist' = [hist EXCEPT !.nResets = @ + 1]
    /\ UNCHANGED <<ym, configVars, snapVars, CyclesCounterSound, CompleteSndBufIdx,
                   nSamplesToGenerate, OldSndBufIdx, audioLock, pc, cbpc, logVars,
                   lastNextSample, sched, stepVars>>

(***************************************************************************)
(* SpecLock: the frame scheduler, the consumer and the two resets (run     *)
(* before the cycle counter has advanced, to keep the state space small).  *)
(* A Sound_Update that has begun takes its next step, the callback that    *)
(* has the lock runs on to its end, and a callback that finds the lock     *)
(* free again and again gets it.  The second condition is enabled exactly  *)
(* at the two steps of Sound_Update that compute, which are always         *)
(* possible: it says that the emulation does not stay there for ever.      *)
(***************************************************************************)
SpecLock ==
    /\ InitSched
    /\ [][\/ NextSched
          \/ hist.nAdds = 0 /\ Sound_Reset_Counted
          \/ hist.nAdds = 0 /\ Sound_ResetBufferIndex]_vars
    /\ WF_vars(Sound_Update_Lock \/ Sound_Update_Advance \/ Sound_Update_Unlock
                 \/ Sound_Update_Wav)
    /\ WF_vars(/\ pc \in {"setsamples", "generate"}
               /\ pc' = "unlock"
               /\ UNCHANGED <<ym, configVars, snapVars, CyclesCounterSound, bufVars,
                              nSamplesToGenerate, OldSndBufIdx, audioLock, cbpc,
                              logVars, lastNextSample, call, sched, hist, stepVars>>)
    /\ WF_vars(Audio_CallBack)
    /\ SF_vars(Audio_CallBack_Lock)

\* the register writes of each specification: <<register, byte>>
EnvelopeWrites == {<<13, 0>>, <<13, 10>>, <<13, 142>>, <<13, 255>>,
                   <<11, 1>>, <<12, 1>>, <<11, 0>>}
VolumeWrites == {<<8, 31>>, <<8, 12>>, <<9, 16>>, <<9, 47>>, <<10, 255>>, <<10, 0>>,
                 <<7, 0>>}
NoiseWrites == {<<6, 0>>, <<6, 2>>, <<6, 3>>, <<6, 31>>, <<6, 34>>, <<6, 255>>}

InitGenerator ==
    /\ UseLowPassFilter \in BOOLEAN
    /\ OutputAudioFreqIndex \in FreqIndexes
    /\ bRecordingWav = FALSE
    /\ IntOverflow = "wrap"
    /\ InitCommon

(***************************************************************************)
(* SpecEnvelope: envelope shape and period writes between samples.         *)
(***************************************************************************)
Sound_WriteReg_Envelope == Sound_WriteReg_Call(EnvelopeWrites)

NextEnvelope ==
    \/ Sound_WriteReg_Envelope
    \/ YM2149_NextSample_Call
    \/ Sound_Reset

SpecEnvelope == InitGenerator /\ [][NextEnvelope]_vars

(***************************************************************************)
(* SpecVolume: amplitude and mixer writes between samples.                 *)
(***************************************************************************)
Sound_WriteReg_Volume == Sound_WriteReg_Call(VolumeWrites)

NextVolume ==
    \/ Sound_WriteReg_Volume
    \/ YM2149_NextSample_Call
    \/ Sound_Reset

SpecVolume == InitGenerator /\ [][NextVolume]_vars

(***************************************************************************)
(* SpecNoise: noise period writes between samples.                         *)
(***************************************************************************)
Sound_WriteReg_Noise == Sound_WriteReg_Call(NoiseWrites)

NextNoise ==
    \/ Sound_WriteReg_Noise
    \/ YM2149_NextSample_Call
    \/ Sound_Reset

SpecNoise == InitGenerator /\ [][NextNoise]_vars

(***************************************************************************)
(* SpecReset: Sound_Reset after writes to the mixer, an amplitude, the     *)
(* noise period and the envelope shape, with the low pass filter on.       *)
(***************************************************************************)
ResetWrites == {<<7, 0>>, <<8, 15>>, <<6, 3>>, <<13, 10>>}

InitReset ==
    /\ UseLowPassFilter = TRUE
    /\ OutputAudioFreqIndex \in {1, 3}
    /\ bRecordingWav = FALSE
    /\ IntOverflow = "wrap"
    /\ InitCommon

Sound_WriteReg_BeforeReset == Sound_WriteReg_Call(ResetWrites)

NextReset ==
    \/ Sound_WriteReg_BeforeReset
    \/ YM2149_NextSample_Call
    \/ Sound_Reset_Counted

SpecReset == InitReset /\ [][NextReset]_vars

(***************************************************************************)
(* SpecScenario: the low pass filter off at 11025 or 44100 Hz; it sets a   *)
(* mixer that enables only voice A's tone, fixed and envelope amplitudes,  *)
(* a voice-A tone period and the envelope shape, then takes samples.       *)
(***************************************************************************)
Sound_WriteReg_Scenario ==
    /\ pc = "idle"
    /\ hist.nWrites < MaxWrites
    /\ \E w \in {<<7, 62>>, <<8, 15>>, <<8, 16>>, <<9, 15>>, <<0, 6>>, <<0, 200>>,
                 <<13, 0>>} :
          /\ ym' = Sound_WriteReg(ym, w[1], w[2], OutputAudioFreqIndex)
          /\ call' = <<"Sound_WriteReg", w[1], w[2]>>
    /\ prev' = Before(ym)
    /\ hist' = [hist EXCEPT !.nWrites = @ + 1]
    /\ UNCHANGED <<configVars, snapVars, schedVars, lastNextSample, arg, res>>

InitScenario ==
    /\ UseLowPassFilter = FALSE
    /\ OutputAudioFreqIndex \in {1, 3}
    /\ bRecordingWav = FALSE
    /\ IntOverflow = "wrap"
    /\ InitCommon

NextScenario == Sound_WriteReg_Scenario \/ YM2149_NextSample_Call

SpecScenario == InitScenario /\ [][NextScenario]_vars

(***************************************************************************)
(* SpecRegs: writes of bytes with bits set beyond every register's width   *)
(* to each of the 14 registers, and Sound_Reset.                           *)
(***************************************************************************)
Sound_WriteReg_AnyByte == Sound_WriteReg_Call((0 .. 13) \X {90, 255})

SpecRegs == InitScenario /\ [][Sound_WriteReg_AnyByte \/ Sound_Reset_Counted]_vars

(***************************************************************************)
(* SpecRnd: the noise generator's shift register, one YM2149_RndCompute    *)
(* per noise tick, from the seed of the reset onwards.                     *)
(***************************************************************************)
YM2149_RndCompute_Call ==
    /\ pc = "idle"
    /\ LET r == YM2149_RndCompute(ym.RndRack)
       IN /\ ym' = [ym EXCEPT !.RndRack = r.RndRack]
          /\ res' = r.ret
    /\ call' = <<"YM2149_RndCompute", 0, 0>>
    /\ prev' = Before(ym)
    /\ UNCHANGED <<configVars, snapVars, schedVars, lastNextSample, hist, arg>>

SpecRnd == InitScenario /\ [][YM2149_RndCompute_Call]_vars

(***************************************************************************)
(* Sound_BeginRecording.  A file name is a null pointer or a sequence of   *)
(* characters.  File_DoesFileExtensionMatch (file.c) compares the end of   *)
(* the name with the extension, letters of either case being equal.        *)
(***************************************************************************)
File_DoesFileExtensionMatch(chars, ext) ==
    LET lower(c) == CASE c = "Y" -> "y" [] c = "M" -> "m" [] c = "W" -> "w"
                      [] c = "A" -> "a" [] c = "V" -> "v" [] OTHER -> c
        n == Len(chars)
        k == Len(ext)
    IN /\ n >= k
       /\ \A i \in 1 .. k : lower(chars[n - k + i]) = ext[i]

\* a recording that opens without the length test
Sound_BeginRecording_NoLength(name, ok) ==
    IF name.null
    THEN [ret |-> FALSE, ym |-> FALSE, wav |-> FALSE]
    ELSE IF File_DoesFileExtensionMatch(name.chars, <<".", "y", "m">>)
    THEN [ret |-> ok, ym |-> ok, wav |-> FALSE]
    ELSE IF File_DoesFileExtensionMatch(name.chars, <<".", "w", "a", "v">>)
    THEN [ret |-> ok, ym |-> FALSE, wav |-> ok]
    ELSE [ret |-> FALSE, ym |-> FALSE, wav |-> FALSE]

\* the value returned and the recording opened; ok is what the recorder called
\* (YMFormat_BeginRecording or WAVFormat_OpenFile) returns
Sound_BeginRecording(name, ok) ==
    IF name.null \/ Len(name.chars) <= 3
    THEN [ret |-> FALSE, ym |-> FALSE, wav |-> FALSE]
    ELSE IF File_DoesFileExtensionMatch(name.chars, <<".", "y", "m">>)
    THEN [ret |-> ok, ym |-> ok, wav |-> FALSE]
    ELSE IF File_DoesFileExtensionMatch(name.chars, <<".", "w", "a", "v">>)
    THEN [ret |-> ok, ym |-> FALSE, wav |-> ok]
    ELSE [ret |-> FALSE, ym |-> FALSE, wav |-> FALSE]

Sound_BeginRecording_Call ==
    /\ pc = "idle"
    /\ hist.nOps < MaxOps
    /\ \E null \in BOOLEAN, ok \in BOOLEAN,
          chars \in { <<>>, <<".", "y", "m">>, <<"w", "a", "v">>, <<"a", "y", "m">>,
                      <<"a", ".", "y", "m">>, <<"A", ".", "Y", "M">>,
                      <<".", "w", "a", "v">>, <<"a", ".", "w", "a", "v">>,
                      <<"b", ".", "W", "a", "v">>, <<"a", ".", "t", "x", "t">>,
                      <<"a", "b", "c", "d">>, <<"a", ".", "y", "m", "x">>,
                      <<"y", "m", ".", "w", "a">> } :
          LET name == [null |-> null, chars |-> IF null THEN <<>> ELSE chars]
              r == Sound_BeginRecording(name, ok)
          IN /\ bRecordingYM' = (bRecordingYM \/ r.ym)
             /\ bRecordingWav' = (bRecordingWav \/ r.wav)
             /\ call' = <<"Sound_BeginRecording", IF ok THEN 1 ELSE 0,
                          IF r.ret THEN 1 ELSE 0>>
             /\ arg' = <<"name", name, 0>>
    /\ hist' = [hist EXCEPT !.nOps = @ + 1]
    /\ UNCHANGED <<ym, UseLowPassFilter, OutputAudioFreqIndex, IntOverflow, ymout5_u16,
                   snapVars, schedVars, lastNextSample, prev, res>>

SpecRecording ==
    InitScenario /\ [][Sound_BeginRecording_Call \/ YM2149_NextSample_Call]_vars

(***************************************************************************)
(* Sound_Init run again: Ym2149_Init rebuilds the tables and resets the    *)
(* generator, Sound_Reset follows.                                         *)
(***************************************************************************)
Sound_Init ==
    /\ pc = "idle"
    /\ audioLock = "none"
    /\ hist.nOps < MaxOps
    /\ ymout5_u16' = Ym2149_Init(ymout5_u16)
    /\ ym' = YmAfterSoundReset(Ym2149_Reset(ym, OutputAudioFreqIndex),
                               OutputAudioFreqIndex)
    /\ CyclesCounterSound' = 0
    /\ CompleteSndBufIdx' = 0
    /\ nGeneratedSamples' = ResetSamples(OutputAudioFreqIndex)
    /\ ActiveSndBufIdx' = ResetSamples(OutputAudioFreqIndex) % MIXBUFFER_SIZE
    /\ call' = <<"Sound_Init", 0, 0>>
    /\ prev' = Before(ym)
    /\ hist' = [hist EXCEPT !.nOps = @ + 1]
    /\ UNCHANGED <<UseLowPassFilter, OutputAudioFreqIndex, bRecordingWav, bRecordingYM,
                   IntOverflow, snapVars, nSamplesToGenerate, OldSndBufIdx, audioLock,
                   pc, cbpc, logVars, lastNextSample, sched, arg, res>>

SpecInit ==
    InitScenario /\ [][Sound_Init \/ Sound_WriteReg_Call({<<8, 15>>, <<13, 10>>})
                         \/ YM2149_NextSample_Call]_vars

(***************************************************************************)
(* SpecTone: tone periods of the three voices written around the limit of  *)
(* 5, samples and resets.                                                  *)
(***************************************************************************)
SpecTone ==
    /\ InitScenario
    /\ [][\/ Sound_WriteReg_Call({<<0, 6>>, <<0, 5>>, <<1, 1>>, <<2, 200>>, <<2, 0>>,
                                  <<4, 7>>, <<4, 5>>})
          \/ YM2149_NextSample_Call
          \/ Sound_Reset_Counted]_vars

(***************************************************************************)
(* SpecMix: the mixer with tones and noise enabled, a running noise and    *)
(* tone generator, a fixed and an envelope amplitude, then samples.        *)
(***************************************************************************)
Sound_WriteReg_Mix ==
    /\ pc = "idle"
    /\ hist.nWrites < MaxWrites
    /\ \E w \in {<<7, 0>>, <<6, 3>>, <<8, 15>>, <<9, 16>>, <<0, 6>>} :
          /\ ym' = Sound_WriteReg(ym, w[1], w[2], OutputAudioFreqIndex)
          /\ call' = <<"Sound_WriteReg", w[1], w[2]>>
    /\ prev' = Before(ym)
    /\ hist' = [hist EXCEPT !.nWrites = @ + 1]
    /\ UNCHANGED <<configVars, snapVars, schedVars, lastNextSample, arg, res>>

SpecMix == InitScenario /\ [][Sound_WriteReg_Mix \/ YM2149_NextSample_Call]_vars

(***************************************************************************)
(* SpecDc: the DC adjuster alone, fed runs of equal samples that stay      *)
(* within its history or go around it, and reset.                          *)
(***************************************************************************)
DcAdjuster_AddSample_Calls ==
    /\ pc = "idle"
    /\ hist.nOps < MaxOps
    /\ \E sample \in {-32768, 1, 32767}, n \in {1, DC_ADJUST_BUFFERLEN - 1,
                                                DC_ADJUST_BUFFERLEN + 1} :
          /\ ym' = DcAdjuster_AddSamples(ym, sample, n)
          /\ call' = <<"DcAdjuster_AddSample", sample, n>>
    /\ prev' = Before(ym)
    /\ hist' = [hist EXCEPT !.nOps = @ + 1]
    /\ UNCHANGED <<configVars, snapVars, schedVars, lastNextSample, arg, res>>

DcAdjuster_Reset_Call ==
    /\ pc = "idle"
    /\ hist.nResets < MaxResets
    /\ ym' = DcAdjuster_Reset(ym)
    /\ call' = <<"DcAdjuster_Reset", 0, 0>>
    /\ prev' = Before(ym)
    /\ hist' = [hist EXCEPT !.nResets = @ + 1]
    /\ UNCHANGED <<configVars, snapVars, schedVars, lastNextSample, arg, res>>

SpecDc == InitScenario /\ [][DcAdjuster_AddSample_Calls \/ DcAdjuster_Reset_Call]_vars

(***************************************************************************)
(* SpecTable: every entry of the DAC table read once.                      *)
(***************************************************************************)
ymout5_Lookup ==
    /\ arg[1] = "none"
    /\ \E h \in 0 .. (32 * 32 * 32 - 1) :
        /\ arg' = <<"ymout5", h, YM2149_BuildLinearVolumeTable(h)>>
        /\ res' = ymout5(h)
        /\ UNCHANGED <<ym, configVars, snapVars, schedVars, lastNextSample, call, hist, prev>>

SpecTable == InitScenario /\ [][ymout5_Lookup]_vars

(***************************************************************************)
(* SpecVbl: Sound_Update_VBL on each VBL, plain updates, writes of the     *)
(* envelope registers and resets in between.                               *)
(***************************************************************************)
\* Sound_Update_VBL: the call of Sound_Update
Sound_Update_VBL_Enter ==
    /\ pc = "idle"
    /\ OldSndBufIdx' = ActiveSndBufIdx
    /\ pc' = "lock"
    /\ call' = <<"Sound_Update_VBL", 0, 0>>
    /\ hist' = [hist EXCEPT !.frameExact = @ /\ call[1] = "Cycles_Add"]
    /\ UNCHANGED <<ym, configVars, snapVars, CyclesCounterSound, bufVars, nSamplesToGenerate,
                   audioLock, cbpc, logVars, lastNextSample, sched, stepVars>>

\* Sound_Update_VBL: the last statement of its Sound_Update, then
\* bEnvelopeFreqFlag = FALSE
Sound_Update_VBL_Return ==
    /\ pc = "wav"
    /\ call[1] = "Sound_Update_VBL"
    /\ wavCall' = IF bRecordingWav THEN <<OldSndBufIdx, nSamplesToGenerate>>
                                   ELSE wavCall
    /\ ym' = [ym EXCEPT !.bEnvelopeFreqFlag = FALSE]
    /\ pc' = "idle"
    /\ call' = <<"Sound_Update_VBL_return", 0, 0>>
    /\ UNCHANGED <<configVars, snapVars, CyclesCounterSound, bufVars, nSamplesToGenerate,
                   OldSndBufIdx, audioLock, cbpc, mixWritten, clobbered, dmaSndCall,
                   lastNextSample, sched, hist, stepVars>>

NextVbl ==
    \/ Cycles_Add({CYCLES_PER_FRAME}, MaxBursts)
    \/ Sound_Update_Enter
    \/ Sound_Update_VBL_Enter
    \/ Sound_Update_Lock
    \/ Sound_Update_SetSamplesPassed
    \/ Sound_Update_GenerateLoop
    \/ Sound_Update_Advance
    \/ Sound_Update_Unlock
    \/ call[1] = "Sound_Update" /\ Sound_Update_Wav
    \/ Sound_Update_VBL_Return
    \/ Sound_WriteReg_Call({<<13, 10>>, <<11, 5>>})
    \/ hist.nAdds = 0 /\ Sound_Reset_Counted

SpecVbl == InitSched /\ [][NextVbl]_vars

(***************************************************************************)
(* SpecResetAny: Sound_Reset from states that differ in the registers, the *)
(* tone and envelope generators, the filter history and the cursors of the *)
(* ring (the consumer runs before the writes, to keep the state space      *)
(* small).                                                                 *)
(***************************************************************************)
SpecResetAny ==
    /\ InitReset
    /\ [][\/ cbpc = "idle" /\ Sound_WriteReg_Call({<<8, 15>>, <<0, 200>>})
          \/ cbpc = "idle" /\ YM2149_NextSample_Call
          \/ hist.nOps = 0 /\ hist.nSamples = 0 /\ Audio_CallBack_Lock
          \/ Audio_CallBack
          \/ Sound_Reset_Counted]_vars

(***************************************************************************)
(* SpecPsg: the frame scheduler with writes of the PSG data register.  The *)
(* write handler (psg.c) calls Sound_Update, then Sound_WriteReg.          *)
(***************************************************************************)
PSG_DataRegister_WriteByte ==
    /\ call[1] = "Sound_Update_return"
    /\ hist.nOps = 0
    /\ Sound_WriteReg_Call({<<8, 15>>})

SpecPsg == InitSched /\ [][NextFrame \/ PSG_DataRegister_WriteByte]_vars

(***************************************************************************)
(* Sound_MemorySnapShot_Capture: five MemorySnapShot_Store of the local    *)
(* dummy.  On a save the file receives the value of dummy, which is not    *)
(* initialised; on a restore dummy receives what the file holds.  No       *)
(* variable of the generator is read or written.                           *)
(***************************************************************************)
\* values the uninitialised local may hold
DummyValues == {0, 65535}

Sound_MemorySnapShot_Capture ==
    /\ pc = "idle"
    /\ hist.nCaptures < MaxCaptures
    /\ \E bSave \in BOOLEAN :
          /\ call' = <<"Sound_MemorySnapShot_Capture", IF bSave THEN 1 ELSE 0, 0>>
          /\ IF bSave
             THEN /\ \E dummy \in DummyValues : snapshot' = [i \in 1 .. 5 |-> dummy]
                  /\ saved' = [valid |-> TRUE, state |-> SnapshotState(ym)]
             ELSE /\ saved.valid
                  /\ UNCHANGED <<snapshot, saved>>
    /\ hist' = [hist EXCEPT !.nCaptures = @ + 1]
    /\ UNCHANGED <<ym, configVars, schedVars, lastNextSample, stepVars>>

Sound_WriteReg_Snapshot ==
    Sound_WriteReg_Call({<<8, 15>>, <<0, 100>>, <<13, 10>>})

NextSnapshot ==
    \/ Sound_WriteReg_Snapshot
    \/ YM2149_NextSample_Call
    \/ Sound_MemorySnapShot_Capture

SpecSnapshot == InitReset /\ [][NextSnapshot]_vars

(***************************************************************************)
(* SpecStep: the step computations applied to every period.                *)
(***************************************************************************)
Ym2149_ToneStepCompute_Call ==
    /\ arg[1] = "none"
    /\ \E rHigh \in 0 .. 15, rLow \in 0 .. 255 :
        /\ arg' = <<"tone", rHigh, rLow>>
        /\ res' = Ym2149_ToneStepCompute(rHigh, rLow, OutputAudioFreqIndex)
        /\ UNCHANGED <<ym, configVars, snapVars, schedVars, lastNextSample, call, hist, prev>>

Ym2149_NoiseStepCompute_Call ==
    /\ arg[1] = "none"
    /\ \E rNoise \in 0 .. 255 :
        /\ arg' = <<"noise", 0, rNoise>>
        /\ res' = Ym2149_NoiseStepCompute(rNoise, OutputAudioFreqIndex)
        /\ UNCHANGED <<ym, configVars, snapVars, schedVars, lastNextSample, call, hist, prev>>

\* the envelope periods applied: the low ones, and the highest coarse value
EnvStepHighs == {0, 1, 255}

Ym2149_EnvStepCompute_Call ==
    /\ arg[1] = "none"
    /\ \E rHigh \in EnvStepHighs, rLow \in 0 .. 255 :
        /\ arg' = <<"env", rHigh, rLow>>
        /\ res' = Ym2149_EnvStepCompute(rHigh, rLow, OutputAudioFreqIndex)
        /\ UNCHANGED <<ym, configVars, snapVars, schedVars, lastNextSample, call, hist, prev>>

InitStep ==
    /\ UseLowPassFilter = FALSE
    /\ OutputAudioFreqIndex \in FreqIndexes
    /\ bRecordingWav = FALSE
    /\ IntOverflow = "wrap"
    /\ InitCommon

NextStep ==
    \/ Ym2149_ToneStepCompute_Call
    \/ Ym2149_NoiseStepCompute_Call
    \/ Ym2149_EnvStepCompute_Call

SpecStep == InitStep /\ [][NextStep]_vars

(***************************************************************************)
(* SpecEnvRange: the envelope step of every period at every replay         *)
(* frequency, and the envelope run with the shortest periods.              *)
(***************************************************************************)
Ym2149_EnvStepCompute_AnyPeriod ==
    /\ arg[1] = "none"
    /\ hist.nOps = 0
    /\ hist.nSamples = 0
    /\ \E rHigh \in 0 .. 255, rLow \in 0 .. 255 :
        /\ arg' = <<"env", rHigh, rLow>>
        /\ res' = Ym2149_EnvStepCompute(rHigh, rLow, OutputAudioFreqIndex)
        /\ UNCHANGED <<ym, configVars, snapVars, schedVars, lastNextSample, call, hist, prev>>

SpecEnvRange ==
    /\ InitStep
    /\ [][\/ Ym2149_EnvStepCompute_AnyPeriod
          \/ arg[1] = "none"
                /\ Sound_WriteReg_Call({<<11, 0>>, <<11, 1>>, <<12, 0>>, <<12, 255>>,
                                        <<13, 10>>})
          \/ arg[1] = "none" /\ YM2149_NextSample_Call]_vars

(***************************************************************************)
(* Properties.                                                             *)
(***************************************************************************)
Max0(a) == IF a < 0 THEN 0 ELSE a
GT32(a, b) == GE32(a, b) /\ a # b
\* envPos >> 24
EnvIndex(y) == y.envPos[1] \div 256
\* the 5-bit field of voice v (0, 1, 2 for A, B, C) in a 3-voice word
VoiceField(w, v) == (w \div Pow2(5 * v)) % 32

\* C1: whatever the cycle counter holds, one Sound_Update writes at most
\* MIXBUFFER_SIZE - nGeneratedSamples samples (none when that is negative);
\* with a consumer that only decreases nGeneratedSamples, nGeneratedSamples
\* never passes MIXBUFFER_SIZE and no entry still unconsumed is overwritten.
C1_RingNeverOverrun ==
    /\ nGeneratedSamples <= MIXBUFFER_SIZE
    /\ ~clobbered
    /\ pc # "generate" => mixWritten[2] <= Max0(MIXBUFFER_SIZE - sched.nGenBefore)

\* an update whose sample count the ring clamp has cut, and that wrote what
\* was left of the ring
C1_ClampedUpdate ==
    /\ pc = "unlock"
    /\ sched.nSamplesToGenerate < sched.beforeRingClamp
    /\ mixWritten[2] = sched.nSamplesToGenerate
    /\ mixWritten[2] > 0
    /\ nGeneratedSamples = MIXBUFFER_SIZE

\* C2: the audio callback, which takes the audio lock before it reads
\* MixBuffer, CompleteSndBufIdx and nGeneratedSamples, never runs between the
\* start of Sound_SetSamplesPassed and the end of Sound_GenerateSamples, and
\* the write cursor it could read is the read cursor plus nGeneratedSamples.
C2_CallbackExcluded ==
    cbpc = "run" =>
        /\ pc \notin {"setsamples", "generate", "advance", "unlock"}
        /\ audioLock = "cb"
        /\ ActiveSndBufIdx = (CompleteSndBufIdx + nGeneratedSamples) % MIXBUFFER_SIZE

\* the callback runs while Sound_Update waits for the lock
C2_UpdateWaits == cbpc = "run" /\ pc = "lock" /\ audioLock = "cb"

\* C3: for every non-negative cycle counter Sound_SetSamplesPassed leaves
\* nSamplesToGenerate in 0 .. SAMPLES_PER_FRAME.
C3_SamplesWithinFrame ==
    sched.cyclesBefore >= 0 =>
        sched.nSamplesToGenerate \in 0 .. SAMPLES_PER_FRAME(OutputAudioFreqIndex)

\* C4: from Sound_Reset on, when the counter advances by exactly
\* CYCLES_PER_FRAME between successive updates and the ring always has room
\* for a frame, every update generates exactly SAMPLES_PER_FRAME samples and
\* leaves the counter at 0.
C4_ExactFrame ==
    (pc = "unlock" /\ hist.frameExact /\ hist.roomAlways) =>
        /\ nSamplesToGenerate = SAMPLES_PER_FRAME(OutputAudioFreqIndex)
        /\ mixWritten[2] = SAMPLES_PER_FRAME(OutputAudioFreqIndex)
        /\ CyclesCounterSound = 0

\* the second of two frame-paced updates has generated its samples
C4_SecondFrame ==
    /\ pc = "unlock"
    /\ hist.frameExact
    /\ hist.roomAlways
    /\ hist.nAdds = 2
    /\ hist.cumSamples = 2 * SAMPLES_PER_FRAME(OutputAudioFreqIndex)

\* C5: while no clamp applies, after every update the samples generated so far
\* do not exceed (cycles so far) * SAMPLES_PER_FRAME / CYCLES_PER_FRAME and
\* are short of it by less than two samples.
C5_NoDrift ==
    (call[1] = "Sound_Update_return" /\ ~hist.clampSeen) =>
        /\ hist.cumSamples * CYCLES_PER_FRAME
              <= hist.cumCycles * SAMPLES_PER_FRAME(OutputAudioFreqIndex)
        /\ (hist.cumCycles * SAMPLES_PER_FRAME(OutputAudioFreqIndex))
              - (hist.cumSamples * CYCLES_PER_FRAME) < 2 * CYCLES_PER_FRAME

\* C6: Sound_WriteReg(13, v) leaves envPos = 0 and envShape = v & 0x0f.
C6_ShapeWriteResetsEnvelope ==
    (call[1] = "Sound_WriteReg" /\ call[2] = 13) =>
        /\ ym.envPos = U32Zero
        /\ ym.envShape = And8(call[3], 15)

\* a shape write that found the envelope running, with bits set above the
\* low four of the byte
C6_ShapeWriteWhileRunning ==
    /\ call[1] = "Sound_WriteReg"
    /\ call[2] = 13
    /\ call[3] > 15
    /\ prev.envPos # U32Zero
    /\ prev.envShape # And8(call[3], 15)

\* C7: once envPos >> 24 has reached 32 it stays within 32 .. 95 through
\* every later sample and every write that is not one of register 13.
C7_EnvelopeStaysInLoop ==
    [][(/\ EnvIndex(ym) >= 32
        /\ ~(call'[1] = "Sound_WriteReg" /\ call'[2] = 13)
        /\ call'[1] # "Sound_Reset")
       => EnvIndex(ym') \in 32 .. 95]_vars

\* a sample at which the envelope went past block 2 and came back
C7_Wrapped ==
    /\ call[1] = "YM2149_NextSample"
    /\ prev.envPos[1] \div 256 >= 32
    /\ EnvIndex(ym) >= 32
    /\ EnvIndex(ym) < prev.envPos[1] \div 256

\* C8: each voice is in exactly one volume mode: its field of EnvMask3Voices
\* is 0x1f and its field of Vol3Voices is 0, or its field of EnvMask3Voices is
\* 0 and its field of Vol3Voices is the expanded fixed volume.
C8_OneVolumeMode ==
    \A v \in 0 .. 2 :
        LET env == VoiceField(ym.EnvMask3Voices, v)
            vol == VoiceField(ym.Vol3Voices, v)
        IN /\ \/ env = 31 /\ vol = 0 /\ ym.SoundRegs[8 + v] \div 16 = 1
              \/ /\ env = 0
                 /\ vol = YmVolume4to5[(ym.SoundRegs[8 + v] % 16) + 1]
                 /\ ym.SoundRegs[8 + v] \div 16 = 0
           /\ ~(env # 0 /\ vol # 0)
           /\ ym.EnvMask3Voices < 32768
           /\ ym.Vol3Voices < 32768

\* voice A was switched to the envelope while it had a fixed volume, voice B
\* having a fixed volume of its own
C8_SwitchedToEnvelope ==
    /\ call = <<"Sound_WriteReg", 8, 31>>
    /\ VoiceField(prev.Vol3Voices, 0) # 0
    /\ VoiceField(ym.EnvMask3Voices, 0) = 31

\* C9: the tone step is 0 for every period p <= 5; for p in 6 .. 4095 it is
\* positive and step(p + 1) < step(p), at every replay frequency.
C9_ToneStepDecreasing ==
    arg[1] = "tone" =>
        LET p == (arg[2] * 256) + arg[3]
        IN IF p <= 5 THEN res = U32Zero
           ELSE /\ res # U32Zero
                /\ p < 4095 =>
                      GT32(res, Ym2149_ToneStepCompute((p + 1) \div 256, (p + 1) % 256,
                                                       OutputAudioFreqIndex))

\* C10: a write of register 6 with a period p < 3 leaves noiseStep = 0,
\* noisePos = 0 and currentNoise = 0xffff; with p in 3 .. 31 it leaves
\* noiseStep > 0 and changes neither noisePos nor currentNoise.
C10_NoisePeriodWrite ==
    (call[1] = "Sound_WriteReg" /\ call[2] = 6) =>
        IF And8(call[3], 31) < 3
        THEN /\ ym.noiseStep = U32Zero
             /\ ym.noisePos = U32Zero
             /\ ym.currentNoise = U32Ones16
        ELSE /\ GT32(ym.noiseStep, U32Zero)
             /\ ym.noisePos = prev.noisePos
             /\ ym.currentNoise = prev.currentNoise

\* a period below 3 written while the noise generator had advanced and its
\* output was low
C10_ResetWhileRunning ==
    /\ call[1] = "Sound_WriteReg"
    /\ call[2] = 6
    /\ And8(call[3], 31) < 3
    /\ prev.noisePos # U32Zero
    /\ prev.currentNoise = U32Zero

\* C11: the envelope step computed for envelope period 0 is exactly half the
\* step computed for envelope period 1.
C11_EnvStepPeriod0IsHalf ==
    arg = <<"env", 0, 0>> =>
        Add32(res, res) = Ym2149_EnvStepCompute(0, 1, OutputAudioFreqIndex)

\* C12: after Sound_Reset, from any prior state, SoundRegs[i] = 0 for every
\* i in 0 .. 13 other than 7, SoundRegs[7] = 0x3f, and the six mixer gate
\* masks are all-ones (0xffff, the value an open gate holds).
C12_ResetRegisters ==
    call[1] = "Sound_Reset" =>
        /\ \A i \in (0 .. 13) \ {7} : ym.SoundRegs[i] = 0
        /\ ym.SoundRegs[7] = 63
        /\ \A m \in {ym.mixerTA, ym.mixerTB, ym.mixerTC,
                     ym.mixerNA, ym.mixerNB, ym.mixerNC} : m = U32Ones16

\* a reset that found the mixer register at 0, its gate of voice A closed,
\* and an amplitude register set
C12_ResetOfWrittenRegisters ==
    /\ call[1] = "Sound_Reset"
    /\ prev.SoundRegs[7] = 0
    /\ prev.mixerTA = U32Zero
    /\ prev.SoundRegs[8] = 15

\* C13: after Sound_Reset, from any prior state, RndRack = 1, envPos = 0,
\* envShape = 0, every DC-history entry, dc_sum and dc_pos are 0, and both
\* low-pass filter taps are 0.
C13_ResetGenerators ==
    call[1] = "Sound_Reset" =>
        /\ ym.RndRack = <<0, 1>>
        /\ ym.envPos = U32Zero
        /\ ym.envShape = 0
        /\ \A i \in 0 .. (DC_ADJUST_BUFFERLEN - 1) : ym.dc_buffer[i] = 0
        /\ ym.dc_sum = 0
        /\ ym.dc_pos = 0
        /\ ym.m_lowPassFilter = <<0, 0>>

\* a reset that found the noise seed advanced, the envelope running and
\* samples in the DC history and in the filter
C13_ResetWhileRunning ==
    /\ call[1] = "Sound_Reset"
    /\ prev.RndRack # <<0, 1>>
    /\ prev.envPos # U32Zero
    /\ prev.dc_sum # 0
    /\ prev.dc_pos # 0
    /\ prev.m_lowPassFilter[1] # 0
    /\ prev.m_lowPassFilter[2] # 0

\* C14: restoring a snapshot saved with Sound_MemorySnapShot_Capture
\* reproduces the generator state of the save: the 14 registers, the tone
\* steps and positions, noise step, position and seed, envelope step,
\* position and shape and the two volume-mask words.
C14_RestoreReproducesState ==
    (call = <<"Sound_MemorySnapShot_Capture", 0, 0>> /\ saved.valid) =>
        SnapshotState(ym) = saved.state

\* the volume level of voice v (0, 1, 2 for A, B, C) for a sample taken in
\* the state recorded by p: the envelope level when bit 4 of its amplitude
\* register is set, the expanded fixed volume otherwise
VoiceLevel(p, v) ==
    IF p.SoundRegs[8 + v] \div 16 = 1
    THEN VoiceField(YmEnvWaves(p.envShape, EnvIndex(p)), v)
    ELSE YmVolume4to5[(p.SoundRegs[8 + v] % 16) + 1]

\* a sample was taken with the low pass filter off and register 7 at 0x3E
SampleWithMixer3E ==
    /\ call[1] = "YM2149_NextSample"
    /\ ~UseLowPassFilter
    /\ prev.SoundRegs[7] = 62

SampleOfSquareWaveA ==
    /\ SampleWithMixer3E
    /\ prev.SoundRegs[8] = 15
    /\ prev.SoundRegs[9] = 0
    /\ prev.SoundRegs[10] = 0
    /\ prev.SoundRegs[1] * 256 + prev.SoundRegs[0] > 5

\* C16: with the low pass filter off, voices B and C at fixed volume 0, voice
\* A at fixed volume 15, a voice-A tone period above 5 and a mixer enabling
\* only voice A's tone, every sample is the DAC entry at index 31 when bit 31
\* of posA is set at sampling time and the entry at index 0 otherwise, and
\* each sample advances posA by stepA (modulo 2^32), so that the output
\* switches each time posA has advanced by 2^31.
C16_SquareWaveOfVoiceA ==
    SampleOfSquareWaveA =>
        /\ lastNextSample.index = IF prev.posA[1] >= B15 THEN 31 ELSE 0
        /\ lastNextSample.sample = ymout5(lastNextSample.index)
        /\ ym.stepA = Ym2149_ToneStepCompute(prev.SoundRegs[1], prev.SoundRegs[0],
                                             OutputAudioFreqIndex)
        /\ ym.posA = Add32(prev.posA, ym.stepA)
        /\ ymout5(31) # ymout5(0)

\* a sample of the low half period of voice A, the next one being of the high
\* half period
C16_LowHalfPeriod ==
    /\ SampleOfSquareWaveA
    /\ lastNextSample.index = 0
    /\ prev.posA[1] < B15
    /\ ym.posA[1] >= B15

\* a sample was taken with voice A in envelope mode, envelope shape 0 and the
\* gate of voice A open
SampleOfEnvelopeShape0 ==
    /\ call[1] = "YM2149_NextSample"
    /\ prev.SoundRegs[8] \div 16 = 1
    /\ prev.SoundRegs[13] = 0
    /\ prev.envShape = 0
    /\ VoiceGate(prev.posA, prev.mixerTA, prev.mixerNA, NoiseOutput(prev)) = 31

\* C17: with voice A in envelope mode, envelope shape 0 and the gate of voice
\* A open, the volume index of voice A is 31 - p at the envelope position p
\* for p in 0 .. 31 (31, 30, ..., 0 over the successive positions) and 0 at
\* every later position; the position never comes back below 32.
C17_Shape0RampThenZero ==
    SampleOfEnvelopeShape0 =>
        /\ \A p \in 0 .. 95 :
              VoiceField(YmEnvWaves(prev.envShape, p), 0)
                  = IF p < 32 THEN 31 - p ELSE 0
        /\ EnvIndex(prev) <= 95
        /\ VoiceField(lastNextSample.index, 0) =
              IF EnvIndex(prev) < 32 THEN 31 - EnvIndex(prev) ELSE 0
        /\ EnvIndex(prev) >= 32 => EnvIndex(ym) \in 32 .. 95

\* a sample on the ramp of shape 0, after a write of 0 to register 13, and
\* the envelope beyond the ramp after it
C17_RampSample ==
    /\ SampleOfEnvelopeShape0
    /\ EnvIndex(prev) \in 1 .. 31
    /\ VoiceField(lastNextSample.index, 0) = 31 - EnvIndex(prev)
    /\ EnvIndex(ym) >= 32

\* C18: after any sequence of Sound_WriteReg calls with arbitrary bytes every
\* stored register is within its width: SoundRegs[1], [3], [5] <= 0x0f,
\* SoundRegs[6] <= 0x1f, SoundRegs[7] <= 0x3f, SoundRegs[8], [9], [10] <= 0x1f
\* and SoundRegs[13] <= 0x0f (and every register is a byte).
C18_RegistersWithinWidth ==
    /\ \A r \in {1, 3, 5, 13} : ym.SoundRegs[r] \in 0 .. 15
    /\ \A r \in {6, 8, 9, 10} : ym.SoundRegs[r] \in 0 .. 31
    /\ ym.SoundRegs[7] \in 0 .. 63
    /\ \A r \in 0 .. 13 : ym.SoundRegs[r] \in 0 .. 255

\* 0xff was written to a register of each width, the latest to register 13
C18_AllOnesWritten ==
    /\ call = <<"Sound_WriteReg", 13, 255>>
    /\ ym.SoundRegs[13] = 15
    /\ prev.SoundRegs[6] = 31
    /\ call[3] > ym.SoundRegs[call[2]]

\* C19: in every state reachable after a reset, after any number of noise
\* ticks, the seed RndRack is not zero and fits in 17 bits
\* (1 <= RndRack <= 2^17 - 1).
C19_SeedNonZero17Bits ==
    /\ ym.RndRack # U32Zero
    /\ ym.RndRack[1] \in {0, 1}
    /\ ym.RndRack[2] \in 0 .. B16 - 1

\* a noise tick that fed a one back into bit 16 of the seed
C19_FeedbackIntoBit16 ==
    /\ call[1] = "YM2149_RndCompute"
    /\ prev.RndRack[1] = 0
    /\ ym.RndRack[1] = 1
    /\ res = U32Zero

\* C20: in every Sound_Update the range handed to the recording
\* collaborators is the range written by that call: it starts at the value
\* ActiveSndBufIdx had when generation began and its count is the number of
\* samples written after both clamps, for DmaSnd_GenerateSamples (called
\* when samples were written) and for WAVFormat_Update alike.
C20_RecordedRangeIsWrittenRange ==
    call[1] = "Sound_Update_return" =>
        /\ bRecordingWav => wavCall = mixWritten
        /\ mixWritten[2] > 0 => dmaSndCall = mixWritten

\* the name is absent, is 3 characters or shorter, or ends in neither .ym nor
\* .wav
IllegalRecordingName(name) ==
    \/ name.null
    \/ Len(name.chars) <= 3
    \/ /\ ~File_DoesFileExtensionMatch(name.chars, <<".", "y", "m">>)
       /\ ~File_DoesFileExtensionMatch(name.chars, <<".", "w", "a", "v">>)

\* C21: Sound_BeginRecording returns FALSE and starts no recording when the
\* file name is absent, is 3 characters or shorter, or ends in neither .ym
\* nor .wav; the generator state, the ring buffer and its cursors are then
\* left as they were.
C21_IllegalNameRefused ==
    [][ (call'[1] = "Sound_BeginRecording" /\ hist'.nOps = hist.nOps + 1
            /\ IllegalRecordingName(arg'[2]))
        => /\ call'[3] = 0
           /\ UNCHANGED <<ym, bRecordingYM, bRecordingWav, bufVars,
                          nSamplesToGenerate, CyclesCounterSound, audioLock>>
      ]_vars

\* a name of three characters that ends in .ym was refused although the
\* recorder would have opened it
C21_ShortNameRefused ==
    /\ call = <<"Sound_BeginRecording", 1, 0>>
    /\ arg[2] = [null |-> FALSE, chars |-> <<".", "y", "m">>]
    /\ ~bRecordingYM
    /\ hist.nSamples > 0

\* the consumer has a callback to run and waits for the lock
ConsumerWaits == cbpc = "idle" /\ hist.nCallbacks < MaxCallbacks

\* C22: Sound_Update, Sound_Reset and Sound_ResetBufferIndex have released
\* the audio lock when they return, on every path; the lock taken by the
\* emulation is always released later, and a consumer waiting for the lock
\* gets it in the end.
C22_LockReleased ==
    /\ [](pc = "idle" => audioLock # "emu")
    /\ (audioLock = "emu") ~> (audioLock = "none")
    /\ ConsumerWaits ~> (cbpc = "run")

\* Sound_Update holds the lock on the path that generates no sample while
\* the consumer waits
C22_LockHeldWithoutSamples ==
    /\ pc = "unlock"
    /\ nSamplesToGenerate <= 0
    /\ audioLock = "emu"
    /\ ConsumerWaits

\* C23: YmVolume4to5 maps 0 to 0 and 15 to 31 and is strictly increasing over
\* its 16 inputs; a write to an amplitude register in fixed mode (bit 4 of
\* the byte clear) indexes it with the stored register, which is in 0 .. 15,
\* and puts the entry in the voice's field of Vol3Voices.
C23_VolumeExpansion ==
    /\ Len(YmVolume4to5) = 16
    /\ YmVolume4to5[1] = 0
    /\ YmVolume4to5[16] = 31
    /\ \A i \in 1 .. 15 : YmVolume4to5[i] < YmVolume4to5[i + 1]
    /\ (call[1] = "Sound_WriteReg" /\ call[2] \in 8 .. 10
            /\ (call[3] \div 16) % 2 = 0) =>
          /\ ym.SoundRegs[call[2]] \in 0 .. 15
          /\ ym.SoundRegs[call[2]] = call[3] % 16
          /\ VoiceField(ym.Vol3Voices, call[2] - 8)
                = YmVolume4to5[ym.SoundRegs[call[2]] + 1]

\* a fixed-mode write of a byte with bit 5 set and volume 15
C23_FixedWriteWithHighBits ==
    /\ call = <<"Sound_WriteReg", 9, 47>>
    /\ ym.SoundRegs[9] = 15
    /\ VoiceField(ym.Vol3Voices, 1) = 31

SubSampleCycles(fi) == (CYCLES_PER_FRAME - 1) \div SAMPLES_PER_FRAME(fi) + 1

\* a register was written, Sound_Update having generated the samples of the
\* cycles elapsed
WriteAfterUpdate == call[1] = "Sound_WriteReg" /\ sched # NoSched

TonePeriod(y, v) == (y.SoundRegs[2 * v + 1] % 16) * 256 + y.SoundRegs[2 * v]
ToneStep(y, v) == CASE v = 0 -> y.stepA [] v = 1 -> y.stepB [] v = 2 -> y.stepC
TonePos(y, v) == CASE v = 0 -> y.posA [] v = 1 -> y.posB [] v = 2 -> y.posC

\* C26: a voice whose tone step is 0 has its phase accumulator at 2^31; a
\* voice whose tone period is at most 5 has step 0, so the sign bit of its
\* phase accumulator is set in every sample taken while the period stays so.
C26_ZeroStepHoldsHigh ==
    \A v \in 0 .. 2 :
        /\ IsZero32(ToneStep(ym, v)) => TonePos(ym, v) = U32Bit31
        /\ TonePeriod(ym, v) <= 5 =>
              /\ IsZero32(ToneStep(ym, v))
              /\ TonePos(ym, v)[1] >= B15
        /\ TonePeriod(ym, v) > 5 => ~IsZero32(ToneStep(ym, v))

\* a sample taken after the write of period 5 to voice A, the second write of
\* the run: the phase accumulator was at 2^31 on entry
C26_SampleAfterPeriod5 ==
    /\ call[1] = "YM2149_NextSample"
    /\ ym.SoundRegs[0] = 5
    /\ hist.nOps = 2
    /\ hist.nSamples >= 2
    /\ IsZero32(ym.stepA)
    /\ prev.posA = U32Bit31

\* C27: currentNoise is 0 or 0xffff; a sample changes currentNoise and
\* RndRack only when noisePos has a bit set at or above bit 16 on entry; while
\* the noise period written is below 3, samples leave currentNoise at 0xffff
\* and RndRack as it is.
C27_NoiseHeldWhileStopped ==
    /\ ym.currentNoise \in {U32Zero, U32Ones16}
    /\ call[1] = "YM2149_NextSample" =>
          /\ prev.noisePos[1] = 0 =>
                /\ ym.currentNoise = prev.currentNoise
                /\ ym.RndRack = prev.RndRack
          /\ ym.SoundRegs[6] < 3 =>
                /\ ym.currentNoise = U32Ones16
                /\ ym.RndRack = prev.RndRack
                /\ IsZero32(ym.noisePos)

\* a sample taken with the noise period 2 written after the generator had
\* run: the shift register has left its seed and stays
C27_SampleWhileStopped ==
    /\ call[1] = "YM2149_NextSample"
    /\ ym.SoundRegs[6] = 2
    /\ ym.RndRack # <<0, 1>>
    /\ ym.RndRack = prev.RndRack
    /\ ym.currentNoise = U32Ones16

\* The mixing of one voice stated with booleans: bit b of register 7
RegBit7(y, b) == (y.SoundRegs[7] \div Pow2(b)) % 2 = 1
\* the noise level of the coming sample: toggled by a new random bit of 1 when
\* the noise counter has passed 2^16
NoiseHigh(y) ==
    IF y.noisePos[1] # 0
    THEN (y.currentNoise = U32Ones16) # (YM2149_RndCompute(y.RndRack).ret = U32Ones16)
    ELSE y.currentNoise = U32Ones16
VoiceOpen(y, v) ==
    /\ TonePos(y, v)[1] >= B15 \/ RegBit7(y, v)
    /\ NoiseHigh(y) \/ RegBit7(y, v + 3)
\* the 5-bit slot of voice v in the index of the coming sample
VoiceSlot(y, v) ==
    IF ~VoiceOpen(y, v) THEN 0
    ELSE IF (y.SoundRegs[8 + v] \div 16) % 2 = 1
         THEN (YmEnvWaves(y.envShape, y.envPos[1] \div 256) \div Pow2(5 * v)) % 32
         ELSE YmVolume4to5[(y.SoundRegs[8 + v] % 16) + 1]
BooleanIndex(y) == VoiceSlot(y, 0) + 32 * VoiceSlot(y, 1) + 1024 * VoiceSlot(y, 2)

\* C28: in every reachable generator state the index that the bit-mask code
\* of YM2149_NextSample computes for the coming sample is the index of the
\* boolean model: per voice 0 when the gate is closed, the envelope volume
\* when it is open in envelope mode, the expanded fixed volume when it is
\* open in fixed mode.
C28_BitMaskIsBooleanModel ==
    /\ Tone3Voices(ym) = BooleanIndex(ym)
    /\ call[1] = "YM2149_NextSample" => ym.currentNoise \in {U32Zero, U32Ones16}

\* voice A at fixed volume 15 closed by the noise, voice B in envelope mode
\* closed as well: samples were taken and the noise went low
C28_NoiseClosesVoices ==
    /\ call[1] = "YM2149_NextSample"
    /\ ym.SoundRegs[7] = 0
    /\ ym.SoundRegs[8] = 15
    /\ ~NoiseHigh(ym)
    /\ Tone3Voices(ym) = 0

\* a sample was taken through the low pass filter
FilteredSample == call[1] = "YM2149_NextSample" /\ UseLowPassFilter
\* the DC level of a running sum
DcLevelOf(sum) == S16(CDiv(sum, DC_ADJUST_BUFFERLEN))

\* C29 (as stated): with the low pass filter on, the DC level subtracted from
\* a sample is the average of the history as it stood before the sample was
\* added.
C29_LevelOfHistoryBefore ==
    FilteredSample =>
        ym.m_lowPassFilter[2]
            = S16(ymout5(lastNextSample.index) - DcLevelOf(prev.dc_sum))

\* C29 (amended): with the low pass filter on, the sample is added to the
\* history of the DC adjuster first, and the DC level subtracted from it is
\* the average of the history that already holds this sample.
C29_LevelOfHistoryWithSample ==
    FilteredSample =>
        /\ ym.dc_buffer[prev.dc_pos] = ymout5(lastNextSample.index)
        /\ hist.nSamples <= DC_ADJUST_BUFFERLEN =>
              ym.dc_sum = prev.dc_sum + ymout5(lastNextSample.index)
        /\ ym.m_lowPassFilter[2]
              = S16(ymout5(lastNextSample.index) - DcLevelOf(ym.dc_sum))

\* a second filtered sample whose own value moves the DC level
C29_SampleMovesLevel ==
    /\ FilteredSample
    /\ hist.nSamples >= 2
    /\ prev.dc_sum # 0
    /\ DcLevelOf(ym.dc_sum) # DcLevelOf(prev.dc_sum)

\* the sum of the entries lo .. hi of the DC history
RECURSIVE DcBufferSum(_, _, _)
DcBufferSum(buf, lo, hi) ==
    IF lo > hi THEN 0
    ELSE IF lo = hi THEN buf[lo]
    ELSE LET mid == (lo + hi) \div 2
         IN DcBufferSum(buf, lo, mid) + DcBufferSum(buf, mid + 1, hi)

\* C30: after DcAdjuster_Reset and any number of DcAdjuster_AddSample calls,
\* dc_sum is the sum of the DC_ADJUST_BUFFERLEN entries of dc_buffer, which
\* hold the latest samples, and dc_pos stays in 0 .. DC_ADJUST_BUFFERLEN - 1.
C30_DcSumIsSumOfHistory ==
    /\ ym.dc_sum = DcBufferSum(ym.dc_buffer, 0, DC_ADJUST_BUFFERLEN - 1)
    /\ ym.dc_pos \in 0 .. (DC_ADJUST_BUFFERLEN - 1)
    /\ call[1] = "DcAdjuster_AddSample" =>
          /\ ym.dc_pos = (prev.dc_pos + call[3]) % DC_ADJUST_BUFFERLEN
          /\ \A j \in 1 .. (IF call[3] > DC_ADJUST_BUFFERLEN
                            THEN DC_ADJUST_BUFFERLEN ELSE call[3]) :
                ym.dc_buffer[(ym.dc_pos - j) % DC_ADJUST_BUFFERLEN] = call[2]

\* samples added all around a history that held other samples: every entry
\* was replaced
C30_HistoryReplaced ==
    /\ call = <<"DcAdjuster_AddSample", 32767, DC_ADJUST_BUFFERLEN + 1>>
    /\ prev.dc_sum < 0
    /\ ym.dc_sum = DC_ADJUST_BUFFERLEN * 32767

\* C31: with linear mixing, output level 0x7fff and no centring, every entry
\* of the DAC table lies in 0 .. 0x7fff, the entry at index 0 is 0, and the
\* entry at index 0x7fff is the maximum of the table, exactly 0x7fff.
C31_TableWithinLevel ==
    arg[1] = "ymout5" =>
        /\ res \in 0 .. 32767
        /\ arg[2] = 0 => res = 0
        /\ arg[2] = 32767 => res = 32767
        /\ res <= ymout5(32767)
        /\ arg[3] \in 0 .. 65535
        /\ arg[3] <= YM2149_BuildLinearVolumeTable(32767)

\* the entry of voice A at 31, voices B and C at 0: a third of the level
C31_OneVoiceFull ==
    /\ arg[1] = "ymout5"
    /\ arg[2] = 31
    /\ arg[3] = 21845
    /\ res = 10922

\* the ring clamp cut the sample count of the latest Sound_SetSamplesPassed
RingClamped == sched # NoSched /\ sched.nSamplesToGenerate < sched.beforeRingClamp
\* the samples a cycle count makes, computed without overflow
SamplesOfCycles(c) ==
    MulDiv(c, SAMPLES_PER_FRAME(OutputAudioFreqIndex), CYCLES_PER_FRAME, "wide")

\* C32: when the ring clamp reduces the sample count of an update, the cycle
\* counter has been decremented by the cycles of the count before that clamp:
\* the update writes only the clamped count, and what the counter keeps makes
\* the samples beyond the count before the clamp, none of those dropped.
C32_DroppedSamplesAreLost ==
    RingClamped =>
        /\ sched.nSampleCycles
              = (sched.beforeRingClamp * CYCLES_PER_FRAME)
                    \div SAMPLES_PER_FRAME(OutputAudioFreqIndex)
        /\ sched.cycles = sched.cyclesBefore - sched.nSampleCycles
        /\ pc \in {"unlock", "wav", "idle"} =>
              /\ mixWritten[2] = sched.nSamplesToGenerate
              /\ CyclesCounterSound >= sched.cycles
        /\ ~sched.overflow =>
              SamplesOfCycles(sched.cycles)
                  = sched.beforeFrameClamp - sched.beforeRingClamp

\* an update that wrote the 112 samples the ring had room for, took a whole
\* frame of cycles off the counter and dropped 770 samples
C32_FrameOfCyclesForPartOfFrame ==
    /\ RingClamped
    /\ pc = "unlock"
    /\ sched.nSamplesToGenerate > 0
    /\ mixWritten[2] = sched.nSamplesToGenerate
    /\ sched.beforeRingClamp = SAMPLES_PER_FRAME(OutputAudioFreqIndex)
    /\ CyclesCounterSound = sched.cyclesBefore - CYCLES_PER_FRAME

\* C33: Sound_Reset clears the flag of register 13: bEnvelopeFreqFlag is
\* FALSE when Sound_Reset returns.
C33_ResetClearsShapeFlag ==
    call[1] = "Sound_Reset" => ~ym.bEnvelopeFreqFlag

\* the step is a return of the named function
Returns(name) == call'[1] = name /\ (call[1] # name \/ hist' # hist)
\* the step is a write of register 13
WritesShape == call'[1] = "Sound_WriteReg" /\ call'[2] = 13 /\ hist' # hist

WritesReg(r) == call'[1] = "Sound_WriteReg" /\ call'[2] = r /\ hist' # hist

\* C35: a write of register 11 or 12 changes that register and envStep, and
\* nothing else of the generator: envPos, envShape, the tone and noise steps
\* and positions, the mixer masks, the two volume words and bEnvelopeFreqFlag
\* stay, so a running envelope is not restarted.
C35_PeriodWriteKeepsEnvelope ==
    [][\A r \in {11, 12} :
          WritesReg(r) =>
              /\ ym' = [ym EXCEPT !.SoundRegs[r] = call'[3], !.envStep = ym'.envStep]
              /\ ym'.envStep = Ym2149_EnvStepCompute(ym'.SoundRegs[12], ym'.SoundRegs[11],
                                                     OutputAudioFreqIndex)]_vars

\* the period was written while the envelope was running
C35_PeriodWrittenWhileRunning ==
    /\ call = <<"Sound_WriteReg", 11, 1>>
    /\ prev.envPos # U32Zero
    /\ ym.envPos = prev.envPos
    /\ prev.SoundRegs[11] = 0

\* C36: a write of the amplitude register of one voice changes, besides the
\* register, only the 5-bit field of that voice in EnvMask3Voices and in
\* Vol3Voices: the fields of the two other voices, the steps, the positions
\* and the mixer masks stay.
C36_AmplitudeWriteOwnField ==
    [][\A v \in 0 .. 2 :
          WritesReg(8 + v) =>
              /\ ym' = [ym EXCEPT !.SoundRegs[8 + v] = ym'.SoundRegs[8 + v],
                                  !.EnvMask3Voices = ym'.EnvMask3Voices,
                                  !.Vol3Voices = ym'.Vol3Voices]
              /\ \A u \in (0 .. 2) \ {v} :
                    /\ VoiceField(ym'.EnvMask3Voices, u) = VoiceField(ym.EnvMask3Voices, u)
                    /\ VoiceField(ym'.Vol3Voices, u) = VoiceField(ym.Vol3Voices, u)
              /\ ym'.EnvMask3Voices \in 0 .. 32767
              /\ ym'.Vol3Voices \in 0 .. 32767]_vars

\* voice B was switched to the envelope while voice A held a fixed volume
C36_OtherVoiceKept ==
    /\ call = <<"Sound_WriteReg", 9, 16>>
    /\ VoiceField(ym.Vol3Voices, 0) = YmVolume4to5[13]
    /\ VoiceField(ym.EnvMask3Voices, 1) = 31
    /\ VoiceField(ym.EnvMask3Voices, 0) = 0
    /\ VoiceField(ym.Vol3Voices, 1) = 0

\* a step below 64 << 24, two blocks of the envelope
BelowTwoBlocks(step) == step[1] < 64 * 256

\* C37: for every envelope period and every replay frequency the step is
\* below two blocks of the envelope, so that envPos + envStep does not
\* overflow 32 bits and one subtraction of two blocks per sample keeps
\* envPos >> 24 within 0 .. 95 at every lookup of YmEnvWaves.
C37_EnvelopeIndexInRange ==
    /\ arg[1] = "env" =>
          /\ BelowTwoBlocks(res)
          /\ ((96 * 256) - 1) + res[1] + 1 < B16
    /\ EnvIndex(ym) \in 0 .. 95
    /\ BelowTwoBlocks(ym.envStep)
    /\ call[1] = "YM2149_NextSample" =>
          /\ EnvIndex(prev) \in 0 .. 95
          /\ prev.envPos[1] + ym.envStep[1] + 1 < B16

\* a sample with the largest step, period 0 at 11025 Hz, that went beyond
\* block 2 and was brought back by one subtraction
C37_WrapWithLargestStep ==
    /\ call[1] = "YM2149_NextSample"
    /\ OutputAudioFreqIndex = 1
    /\ ym.SoundRegs[11] = 0
    /\ ym.SoundRegs[12] = 0
    /\ (prev.envPos[1] + ym.envStep[1]) \div 256 >= 96
    /\ EnvIndex(ym) \in 32 .. 95

\* C38: the write cursor is the first entry after the unconsumed region:
\* ActiveSndBufIdx = (CompleteSndBufIdx + nGeneratedSamples) mod MIXBUFFER_SIZE
\* after every Sound_Reset, Sound_ResetBufferIndex and Sound_Update, with a
\* consumer that moves CompleteSndBufIdx and nGeneratedSamples by the same
\* amount under the lock.
C38_WriteCursorAfterUnconsumed ==
    /\ ActiveSndBufIdx = (CompleteSndBufIdx + nGeneratedSamples) % MIXBUFFER_SIZE
    /\ ActiveSndBufIdx \in 0 .. (MIXBUFFER_SIZE - 1)
    /\ CompleteSndBufIdx \in 0 .. (MIXBUFFER_SIZE - 1)
    /\ nGeneratedSamples \in 0 .. MIXBUFFER_SIZE

\* the indexes were reset after the consumer had moved the read cursor
C38_ResetOfIndexesAfterConsumer ==
    /\ call[1] = "Sound_ResetBufferIndex"
    /\ CompleteSndBufIdx = SoundBufferSize
    /\ nGeneratedSamples = ResetSamples(OutputAudioFreqIndex)
    /\ ActiveSndBufIdx = SoundBufferSize + ResetSamples(OutputAudioFreqIndex)

\* C39: when the cycle counter is non-negative before Sound_SetSamplesPassed
\* it is non-negative after it and equals the value before less
\* floor(n * CYCLES_PER_FRAME / SAMPLES_PER_FRAME), n the sample count after
\* the one-frame clamp; when that clamp did not apply, what remains is less
\* than the cycles of one sample plus one.
C39_CounterLessCyclesOfSamples ==
    (sched # NoSched /\ sched.cyclesBefore >= 0) =>
        /\ sched.cycles >= 0
        /\ sched.cycles
              = sched.cyclesBefore
                  - ((sched.beforeRingClamp * CYCLES_PER_FRAME)
                        \div SAMPLES_PER_FRAME(OutputAudioFreqIndex))
        /\ sched.beforeFrameClamp <= SAMPLES_PER_FRAME(OutputAudioFreqIndex) =>
              sched.cycles <= SubSampleCycles(OutputAudioFreqIndex)

\* the generator state Sound_Reset leaves when it starts from the statics
ResetReference == YmAfterSoundReset(YmStatics, OutputAudioFreqIndex)

\* C40: the state left by Sound_Reset does not depend on the state before it:
\* whatever the registers, generators, filter history and cursors were, the
\* generator and the cursors are those a reset of the zeroed statics leaves,
\* and a sample or a register write that follows gives what it gives from
\* there.
C40_ResetForgetsHistory ==
    [][/\ (call'[1] = "Sound_Reset" /\ hist'.nResets # hist.nResets) =>
             /\ ym' = ResetReference
             /\ CyclesCounterSound' = 0
             /\ CompleteSndBufIdx' = 0
             /\ nGeneratedSamples' = ResetSamples(OutputAudioFreqIndex)
             /\ ActiveSndBufIdx' = ResetSamples(OutputAudioFreqIndex) % MIXBUFFER_SIZE
       /\ (call[1] = "Sound_Reset" /\ call'[1] = "YM2149_NextSample") =>
             /\ ym' = YM2149_NextSample(ResetReference, UseLowPassFilter).ym
             /\ lastNextSample'.sample
                   = YM2149_NextSample(ResetReference, UseLowPassFilter).sample
       /\ (call[1] = "Sound_Reset" /\ call'[1] = "Sound_WriteReg") =>
             ym' = Sound_WriteReg(ResetReference, call'[2], call'[3],
                                  OutputAudioFreqIndex)]_vars

\* a reset of a state with an amplitude set, a tone running, a filter history
\* and a read cursor moved by the consumer
C40_ResetOfUsedState ==
    /\ call[1] = "Sound_Reset"
    /\ prev.dc_sum # 0
    /\ prev.posA # U32Bit31
    /\ prev.SoundRegs[8] = 15
    /\ hist.nCallbacks = 1
    /\ ym.dc_sum = 0
    /\ ym.posA = U32Bit31

====
